---- MODULE Spec2Model ----
(***************************************************************************)
(* Model of the email/document classification core of                      *)
(* maj-subscriptions: the classifier router of document_classifier_api.py, *)
(* the marketing detector's sender-domain check and scoring, the legal     *)
(* document identifier, the v2.2 probabilistic ScoreBreakdown and its      *)
(* confidence levels, the LLM-backed detect_subscription, the text         *)
(* normalizers, the evidence store and the scanner's checkpoint/resume,    *)
(* retry loop and worker auto-scaling; and of the applications bundled     *)
(* with it: the Paperless-NGX pre-consume and sequential restart scripts   *)
(* and the virtual fitting room's try-on API, page and CameraCapture.      *)
(***************************************************************************)
EXTENDS Integers, Sequences, FiniteSets, TLC

VARIABLES
    pc,           \* router position: marketing, legal, receipt, bank, select, done
    avail,        \* which detector modules were importable at construction
    has_text,     \* text_content is non-empty
    from_domain,  \* domain of the From: address found in the text (<<>>: none)
    calls,        \* detectors invoked so far, in order
    results,      \* results list of classify_document (gated detector results)
    attempts,     \* every result a detector returned, gated or not
    verdict,      \* what classify_document returned
    raised,       \* detectors whose call raised an exception
    escaped,      \* an exception propagated out of classify_document
    features,     \* legal detector: the extracted features f
    legal_out,    \* legal detector: classify_document's return value
    matched,      \* scorer: names of the patterns the text matches
    score,        \* scorer: the ScoreBreakdown of the text
    scored,       \* scorer: score_text has run
    email_data,   \* marketing detector: sender domain and pattern matches
    marketing_out, \* marketing detector: << >> or <<analyze's return value>>
    pct,          \* confidence levels: the two percentages compared
    lvl,          \* confidence levels: << >> or their two levels
    keyword_hit,  \* subscription detection: quick_keyword_filter's answer
    llm_log,      \* subscription detection: the LLM server's replies so far
    detect_out,   \* subscription detection: outcome of each call, in order
    tasks,        \* evidence store: each worker's reference and result
    saved,        \* evidence store: workers whose save has run
    email_evidence,         \* rows of table email_evidence, in insert order
    email_classifications,  \* table email_classifications by primary key
    last_write,   \* evidence store: by reference, << >> or <<last row written>>
    text,         \* normalizer: the input string
    normalized,   \* normalizer: << >> or <<results of one and of two passes>>
    idx,          \* scanner: position of the loop in the mbox
    last_processed_index,   \* scanner: value of the stored checkpoint
    processed,    \* scanner: how often each email was processed
    scan_status,  \* scanner: stopped, running or completed
    restarts,      \* scanner: restarts so far
    mail, \* retry: the email the scan loop is at
    attempt, \* retry: loop variable of analyze_with_llm_retry
    llm_attempts, \* retry: analyze_with_llm calls made for each email
    timed_out, \* retry: how many of them raised requests.Timeout
    sleeps, \* retry: the wait_time values slept for each email, in order
    stats_retries, \* retry: self.stats['retries']
    retry_out, \* retry: by email, << >> or <<value returned to the loop>>
    failed_queue, \* retry: emails stored by save_failed_email
    retry_escaped, \* retry: << >> or <<exception that left the function>>
    max_workers, \* auto-scaling: self.max_workers
    current_workers, \* auto-scaling: self.current_workers
    cpu_overload, \* auto-scaling: ResourceMonitor.cpu_overload
    memory_overload, \* auto-scaling: ResourceMonitor.memory_overload
    last_adjust, \* auto-scaling: << >> or <<the last adjust_workers call>>
    document_arg, \* pre-consume: $1, the path Paperless passed
    sh_pc, \* pre-consume: position of the script
    files, \* pre-consume: paths that exist
    temp_text, \* pre-consume: << >> or <<content of TEMP_TEXT>>
    classification, \* pre-consume: << >> or <<the accepted classifier output>>
    metadata, \* pre-consume: << >> or <<content of the metadata file>>
    stdout, \* pre-consume: lines the script wrote to standard output
    rs_pc, \* restart script: position of the script
    running, \* restart script: containers that run
    locks, \* restart script: lock files that exist
    stopped, \* restart script: containers its docker stop has stopped
    removed, \* restart script: lock files its rm -f has removed
    started, \* restart script: containers it has started, in order
    at_start, \* restart script: what ran and was locked at each docker start
    req, \* try-on API: by request, its position and locals
    person_table, \* try-on API: rows of Person, id = position
    clothing_table, \* try-on API: rows of Clothing, id = position
    tryon_table, \* try-on API: rows of TryOn, id = position
    responses, \* try-on API: by request, << >> or <<the JSON response>>
    personMode, \* page: personMode, upload or camera
    instance, \* camera: number of the mounted CameraCapture, 0 before the first
    isStreaming, \* camera: isStreaming
    shots, \* camera: shots, the list the component shows
    stream, \* camera: << >> or <<the MediaStream in component state>>
    pending, \* camera: instances whose getUserMedia call is not answered yet
    live, \* camera: MediaStreams whose tracks have not been stopped
    streams_given, \* camera: MediaStreams handed out so far
    shots_taken, \* camera: shots taken so far
    personCameraShots, \* page: personCameraShots, set by onCapture
    submitted \* page: << >> or <<shots sent and shots shown at the last try-on>>

routerVars == <<pc, avail, has_text, from_domain, calls, results, attempts,
                verdict, raised, escaped>>
legalVars == <<features, legal_out>>
scoreVars == <<matched, score, scored>>
marketingVars == <<email_data, marketing_out>>
levelVars == <<pct, lvl>>
detectVars == <<keyword_hit, llm_log, detect_out>>
storeVars == <<tasks, saved, email_evidence, email_classifications, last_write>>
normVars == <<text, normalized>>
scanVars == <<idx, last_processed_index, processed, scan_status, restarts>>

\* the components added to the classification core
coreExtVars == <<marketingVars, levelVars, detectVars, storeVars, normVars,
                 scanVars>>

\* ---- state of the scanner services and of the applications around them ----
retryVars == <<mail, attempt, llm_attempts, timed_out, sleeps,
               stats_retries, retry_out, failed_queue, retry_escaped>>
workerVars == <<max_workers, current_workers, cpu_overload,
                memory_overload, last_adjust>>
consumeVars == <<document_arg, sh_pc, files, temp_text, classification,
                 metadata, stdout>>
restartVars == <<rs_pc, running, locks, stopped, removed, started,
                 at_start>>
tryonVars == <<req, person_table, clothing_table, tryon_table, responses>>
cameraVars == <<personMode, instance, isStreaming, shots, stream, pending,
                live, streams_given, shots_taken, personCameraShots,
                submitted>>
appVars == <<retryVars, workerVars, consumeVars, restartVars, tryonVars,
             cameraVars>>

notRetry == <<routerVars, legalVars, scoreVars, coreExtVars, workerVars,
              consumeVars, restartVars, tryonVars, cameraVars>>
notWorkers == <<routerVars, legalVars, scoreVars, coreExtVars, retryVars,
                consumeVars, restartVars, tryonVars, cameraVars>>
notConsume == <<routerVars, legalVars, scoreVars, coreExtVars, retryVars,
                workerVars, restartVars, tryonVars, cameraVars>>
notRestart == <<routerVars, legalVars, scoreVars, coreExtVars, retryVars,
                workerVars, consumeVars, tryonVars, cameraVars>>
notTryOn == <<routerVars, legalVars, scoreVars, coreExtVars, retryVars,
              workerVars, consumeVars, restartVars, cameraVars>>
notCamera == <<routerVars, legalVars, scoreVars, coreExtVars, retryVars,
               workerVars, consumeVars, restartVars, tryonVars>>
\* ---- end of the application state groups ----

extVars == <<coreExtVars, appVars>>

vars == <<routerVars, legalVars, scoreVars, extVars>>

(***************************************************************************)
(* Bounds of the model.                                                    *)
(***************************************************************************)
MaxMatched == 4     \* patterns one scored text matches

(***************************************************************************)
(* Thresholds of document_classifier_api.py and marketing_email_detector.  *)
(***************************************************************************)
MARKETING_THRESHOLD == 25
LEGAL_THRESHOLD == 70
BANK_THRESHOLD == 70
RECEIPT_THRESHOLD == 20
NEWSLETTER_CONFIDENCE == 100

Max(a, b) == IF a >= b THEN a ELSE b
Min(a, b) == IF a <= b THEN a ELSE b

(***************************************************************************)
(* Sender domains.  A domain is the sequence of its characters, so that    *)
(* Python's substring test  nl_domain in domain  is modelled as it runs.   *)
(***************************************************************************)
NEWSLETTER_DOMAINS ==
    { <<"a","i","d","a",".","d","e">>,
      <<"b","i","l","d",".","d","e">>,
      <<"g","r","o","u","p","o","n">> }

NoSender == << >>

SenderDomains ==
    { NoSender,
      <<"a","i","d","a",".","d","e">>,                      \* a table entry
      <<"A","I","D","A",".","d","e">>,                      \* upper case
      <<"m",".","a","i","d","a",".","d","e">>,              \* entry as suffix
      <<"g","r","o","u","p","o","n",".","d","e">>,          \* entry as prefix
      <<"x","b","i","l","d",".","d","e",".","c","z">>,      \* entry inside
      <<"o","p","e","n","a","i",".","c","o","m">> }         \* no entry

LowerChar(c) ==
    CASE c = "A" -> "a" [] c = "I" -> "i" [] c = "D" -> "d" [] c = "E" -> "e"
      [] c = "Á" -> "á"
      [] OTHER -> c

Lower(s) == [i \in 1..Len(s) |-> LowerChar(s[i])]

\* Python: sub in s
Contains(s, sub) ==
    \E i \in 0..(Len(s) - Len(sub)) :
        \A k \in 1..Len(sub) : s[i + k] = sub[k]

\* any(nl_domain in domain for nl_domain in self.NEWSLETTER_DOMAINS)
IsNewsletterDomain(domain) ==
    \E nl_domain \in NEWSLETTER_DOMAINS : Contains(domain, nl_domain)

(***************************************************************************)
(* MarketingEmailDetector.analyze.  An email is its sender domain and the  *)
(* pattern matches its text gives.                                         *)
(***************************************************************************)
NoFeatures ==
    [ subject_matches |-> 0, marketing_sender |-> FALSE, unsubscribe |-> FALSE,
      body_phrases |-> FALSE, whitelisted |-> FALSE, blacklisted |-> FALSE,
      not_marketing_matches |-> 0 ]

\* the emails the router is run on
MarketingSamples ==
    { NoFeatures,
      [NoFeatures EXCEPT !.subject_matches = 1],
      [NoFeatures EXCEPT !.marketing_sender = TRUE],
      [NoFeatures EXCEPT !.subject_matches = 2],
      [NoFeatures EXCEPT !.unsubscribe = TRUE, !.marketing_sender = TRUE],
      [NoFeatures EXCEPT !.marketing_sender = TRUE, !.not_marketing_matches = 1],
      [NoFeatures EXCEPT !.blacklisted = TRUE, !.unsubscribe = TRUE] }

subject_score(m) == Min(25, m.subject_matches * 15)

\* the penalty added to the score instead of taken from it
not_marketing_penalty_added(m) ==
    IF m.not_marketing_matches > 0
    THEN 0 - Min(60, m.not_marketing_matches * 50)
    ELSE 0

not_marketing_penalty(m) ==
    IF m.not_marketing_matches > 0
    THEN Min(60, m.not_marketing_matches * 50)
    ELSE 0

content_score(m) ==
    subject_score(m)
    + (IF m.marketing_sender THEN 20 ELSE 0)
    + (IF m.unsubscribe THEN 30 ELSE 0)
    + (IF m.body_phrases THEN 15 ELSE 0)
    - (IF m.whitelisted THEN 20 ELSE 0)
    + (IF m.blacklisted THEN 60 ELSE 0)
    - not_marketing_penalty(m)

normalized_confidence(s) == Max(0, Min(100, s))

is_marketing_of(confidence) == confidence >= MARKETING_THRESHOLD

\* analyze as it was before the newsletter-domain check was added
analyzeWithoutDomainCheck(domain, m) ==
    LET confidence == normalized_confidence(content_score(m))
    IN  [ is_marketing |-> is_marketing_of(confidence),
          confidence |-> confidence,
          via |-> "content" ]

\* returns (is_marketing, confidence, details); via is details.score_breakdown
analyze(domain, m) ==
    IF domain # NoSender /\ IsNewsletterDomain(Lower(domain))
    THEN [ is_marketing |-> TRUE,
           confidence |-> NEWSLETTER_CONFIDENCE,
           via |-> "newsletter_domain" ]
    ELSE LET confidence == normalized_confidence(content_score(m))
         IN  [ is_marketing |-> is_marketing_of(confidence),
               confidence |-> confidence,
               via |-> "content" ]

\* content scoring is the only part of analyze that can raise: the domain
\* check runs first and returns before it
analyze_can_raise(domain) ==
    ~(domain # NoSender /\ IsNewsletterDomain(Lower(domain)))

(***************************************************************************)
(* LegalDocumentIdentifier.classify_document (legal_doc_identifier.py).    *)
(* f is the feature dictionary of extract_features; the confidence is kept *)
(* in percent, as document_classifier_api.py compares it.                  *)
(***************************************************************************)
FeatureNames ==
    { "german_court", "german_police", "court_headers", "court_types",
      "prosecutor_headers", "prosecutor_types", "czech_police_headers",
      "case_numbers", "legal_refs", "signatures" }

Features == [FeatureNames -> BOOLEAN]

NoLegalFeatures == [n \in FeatureNames |-> FALSE]

With(f, names) == [n \in FeatureNames |-> f[n] \/ n \in names]

B2N(b) == IF b THEN 1 ELSE 0

supporting_evidence(f) ==
    B2N(f["case_numbers"]) + B2N(f["legal_refs"]) + B2N(f["signatures"])

LegalResult(doc_type, confidence) ==
    [doc_type |-> doc_type, confidence |-> confidence]

\* classify_document as it was before Fix #2: a keyword alone gives 90
classify_document_aggressive(f) ==
    IF f["german_court"] THEN LegalResult("GERMAN_COURT", 90)
    ELSE IF f["german_police"] THEN LegalResult("GERMAN_POLICE", 90)
    ELSE IF f["court_headers"] THEN LegalResult("COURT_DOCUMENT", 90)
    ELSE IF f["prosecutor_headers"] THEN LegalResult("PROSECUTOR_DOCUMENT", 90)
    ELSE IF f["czech_police_headers"] /\ (f["legal_refs"] \/ f["case_numbers"])
    THEN LegalResult("POLICE_LEGAL", 90)
    ELSE IF f["czech_police_headers"]
    THEN LegalResult("POLICE_ADMIN", 70)
    ELSE IF \E n \in FeatureNames : f[n]
    THEN LegalResult("UNKNOWN", 50)
    ELSE LegalResult("NOT_LEGAL", 0)

classify_document(f) ==
    IF f["german_court"]
    THEN IF supporting_evidence(f) >= 1
         THEN LegalResult("GERMAN_COURT", 90)
         ELSE LegalResult("GERMAN_COURT", 50)
    ELSE IF f["german_police"]
    THEN IF supporting_evidence(f) >= 1
         THEN LegalResult("GERMAN_POLICE", 90)
         ELSE LegalResult("GERMAN_POLICE", 50)
    ELSE IF f["court_headers"]
    THEN IF supporting_evidence(f) >= 1 \/ f["court_types"]
         THEN LegalResult("COURT_DOCUMENT", 90)
         ELSE LegalResult("COURT_DOCUMENT", 60)
    ELSE IF f["prosecutor_headers"]
    THEN IF supporting_evidence(f) >= 1 \/ f["prosecutor_types"]
         THEN LegalResult("PROSECUTOR_DOCUMENT", 90)
         ELSE LegalResult("PROSECUTOR_DOCUMENT", 60)
    ELSE IF f["czech_police_headers"] /\ (f["legal_refs"] \/ f["case_numbers"])
    THEN LegalResult("POLICE_LEGAL", 90)
    ELSE IF f["czech_police_headers"]
    THEN LegalResult("POLICE_ADMIN", 70)
    ELSE IF \E n \in FeatureNames : f[n]
    THEN LegalResult("UNKNOWN", 50)
    ELSE LegalResult("NOT_LEGAL", 0)

\* the documents the router is run on
LegalSamples ==
    { NoLegalFeatures,
      With(NoLegalFeatures, {"german_court"}),
      With(NoLegalFeatures, {"german_court", "case_numbers"}),
      With(NoLegalFeatures, {"czech_police_headers"}),
      With(NoLegalFeatures, {"court_headers"}),
      With(NoLegalFeatures, {"court_headers", "court_types"}),
      With(NoLegalFeatures, {"signatures"}) }

(***************************************************************************)
(* The classifier router: classify_document of document_classifier_api.py. *)
(***************************************************************************)
Detectors == {"marketing", "legal", "receipt", "bank"}

\* confidences the receipt and the bank detector are seen to return
DetectorConfidences == {0, 20, 21, 70, 71, 95}

NoNearMiss == [module |-> "none", confidence |-> 0]

NoVerdict ==
    [ state |-> "none", document_type |-> "none", confidence |-> 0,
      classified_by |-> "none", details |-> "none", near_miss |-> NoNearMiss ]

Result(module, document_type, confidence) ==
    [module |-> module, document_type |-> document_type, confidence |-> confidence]

\* the classifier still comparing with the threshold of v1.4
MarketingQualifiesStale(r) == r.is_marketing /\ r.confidence >= 40

\* if is_marketing and confidence >= 25
MarketingQualifies(r) == r.is_marketing /\ r.confidence >= MARKETING_THRESHOLD

\* the legal gate left at the threshold it had before Fix #3
LegalPassesStale(confidence) == confidence > 50

\* if legal_result['confidence'] > 70
LegalPasses(confidence) == confidence > LEGAL_THRESHOLD

\* if receipt_result['confidence'] > 20
ReceiptPasses(confidence) == confidence > RECEIPT_THRESHOLD

\* if bank_result['confidence'] > 70
BankPasses(confidence) == confidence > BANK_THRESHOLD

\* the first result of the highest confidence
Best(rs) ==
    rs[CHOOSE i \in 1..Len(rs) :
          \A j \in 1..Len(rs) :
              /\ rs[j].confidence <= rs[i].confidence
              /\ j < i => rs[j].confidence < rs[i].confidence]

NearMiss(as) ==
    IF as = << >> THEN NoNearMiss
    ELSE [module |-> Best(as).module, confidence |-> Best(as).confidence]

\* step 0: the early return of the marketing verdict
MarketingReturn(r) ==
    /\ verdict' = [ state |-> "final", document_type |-> "marketing_email",
                    confidence |-> r.confidence,
                    classified_by |-> "marketing_email_detector",
                    details |-> r.via, near_miss |-> NoNearMiss ]
    /\ attempts' = Append(attempts,
            Result("marketing_email_detector", "marketing_email", r.confidence))
    /\ pc' = "done"
    /\ UNCHANGED <<results, raised, escaped>>

\* step 0 without its try/except: the exception leaves classify_document
MarketingRaisedUncaught ==
    /\ raised' = raised \cup {"marketing"}
    /\ escaped' = TRUE
    /\ pc' = "done"
    /\ UNCHANGED <<results, attempts, verdict>>

\* step 0: except Exception as e: print(...)
MarketingRaised ==
    /\ raised' = raised \cup {"marketing"}
    /\ pc' = "legal"
    /\ UNCHANGED <<results, attempts, verdict, escaped>>

MarketingStep ==
    /\ pc = "marketing"
    /\ UNCHANGED <<avail, has_text, from_domain, legalVars, scoreVars, extVars>>
    /\ \/ /\ ~(avail["marketing"] /\ has_text)
          /\ pc' = "legal"
          /\ UNCHANGED <<calls, results, attempts, verdict, raised, escaped>>
       \/ /\ avail["marketing"] /\ has_text
          /\ calls' = Append(calls, "marketing")
          /\ \/ \E m \in MarketingSamples :
                  LET r == analyze(from_domain, m)
                  IN  IF MarketingQualifies(r)
                      THEN MarketingReturn(r)
                      ELSE /\ attempts' = Append(attempts,
                                  Result("marketing_email_detector",
                                         "marketing_email", r.confidence))
                           /\ pc' = "legal"
                           /\ UNCHANGED <<results, verdict, raised, escaped>>
             \/ /\ analyze_can_raise(from_domain)
                /\ MarketingRaised

\* a failing detector gives no verdict and the router goes on
DetectorRaised(d, next) ==
    /\ raised' = raised \cup {d}
    /\ pc' = next
    /\ UNCHANGED <<results, attempts, verdict, escaped>>

\* a detector returned r: it is appended to results when it clears its gate
DetectorReturned(r, passes, next) ==
    /\ attempts' = Append(attempts, r)
    /\ results' = IF passes THEN Append(results, r) ELSE results
    /\ pc' = next
    /\ UNCHANGED <<verdict, raised, escaped>>

DetectorSkipped(next) ==
    /\ pc' = next
    /\ UNCHANGED <<calls, results, attempts, verdict, raised, escaped>>

LegalStep ==
    /\ pc = "legal"
    /\ UNCHANGED <<avail, has_text, from_domain, legalVars, scoreVars, extVars>>
    /\ \/ ~(avail["legal"] /\ has_text) /\ DetectorSkipped("receipt")
       \/ /\ avail["legal"] /\ has_text
          /\ calls' = Append(calls, "legal")
          /\ \/ \E lf \in LegalSamples :
                  LET r == classify_document(lf)
                  IN  DetectorReturned(
                          Result("legal_doc_identifier", r.doc_type, r.confidence),
                          LegalPasses(r.confidence), "receipt")
             \/ DetectorRaised("legal", "receipt")

ReceiptStep ==
    /\ pc = "receipt"
    /\ UNCHANGED <<avail, has_text, from_domain, legalVars, scoreVars, extVars>>
    /\ \/ ~(avail["receipt"] /\ has_text) /\ DetectorSkipped("bank")
       \/ /\ avail["receipt"] /\ has_text
          /\ calls' = Append(calls, "receipt")
          /\ \/ \E c \in DetectorConfidences :
                  DetectorReturned(
                      Result("cz_receipt_intelligence", "receipt", c),
                      ReceiptPasses(c), "bank")
             \/ DetectorRaised("receipt", "bank")

BankStep ==
    /\ pc = "bank"
    /\ UNCHANGED <<avail, has_text, from_domain, legalVars, scoreVars, extVars>>
    /\ \/ ~(avail["bank"] /\ has_text) /\ DetectorSkipped("select")
       \/ /\ avail["bank"] /\ has_text
          /\ calls' = Append(calls, "bank")
          /\ \/ \E c \in DetectorConfidences :
                  DetectorReturned(
                      Result("bank_statement_processor", "bank_statement", c),
                      BankPasses(c), "select")
             \/ DetectorRaised("bank", "select")

\* taking the first collected result instead of the best one
SelectFirst(rs) == rs[1]

\* the result classify_document returns for a non-empty results list
SelectBest(rs) == Best(rs)

Unclassified ==
    [ state |-> "unclassified", document_type |-> "unknown", confidence |-> 0,
      classified_by |-> "none", details |-> "none",
      near_miss |-> NearMiss(attempts) ]

Select ==
    /\ pc = "select"
    /\ pc' = "done"
    /\ verdict' =
          IF results # << >>
          THEN LET best_result == SelectBest(results)
               IN  [ state |-> "final",
                     document_type |-> best_result.document_type,
                     confidence |-> best_result.confidence,
                     classified_by |-> best_result.module,
                     details |-> "none", near_miss |-> NoNearMiss ]
          ELSE Unclassified
    /\ UNCHANGED <<avail, has_text, from_domain, calls, results, attempts,
                   raised, escaped, legalVars, scoreVars, extVars>>

LegalIdle ==
    /\ features = NoLegalFeatures
    /\ legal_out = LegalResult("NONE", 0)

(***************************************************************************)
(* The v2.2 probabilistic scoring: the scoring tables, the category score, *)
(* the bonus combinations and ScoreBreakdown.                              *)
(***************************************************************************)
Categories ==
    { "subscription_indicators", "payment_indicators", "temporal_indicators",
      "sender_trust", "content_structure", "format_quality",
      "negative_penalties" }

Pattern(name, category, points) ==
    [name |-> name, category |-> category, points |-> points]

\* the scoring tables; a penalty's points are negative
PatternTable ==
    { Pattern("subscription_keyword", "subscription_indicators", 50),
      Pattern("renewal_keyword", "subscription_indicators", 45),
      Pattern("payment_confirmed", "subscription_indicators", 40),
      Pattern("invoice_keyword", "subscription_indicators", 35),
      Pattern("membership_keyword", "subscription_indicators", 30),
      Pattern("price_with_currency", "payment_indicators", 40),
      Pattern("payment_method", "payment_indicators", 35),
      Pattern("billing_date", "payment_indicators", 30),
      Pattern("amount_total", "payment_indicators", 25),
      Pattern("monthly_yearly", "temporal_indicators", 35),
      Pattern("renewal_date", "temporal_indicators", 30),
      Pattern("trial_period", "temporal_indicators", 25),
      Pattern("billing_cycle", "temporal_indicators", 20),
      Pattern("known_service", "sender_trust", 25),
      Pattern("payment_processor", "sender_trust", 20),
      Pattern("no_reply_domain", "sender_trust", 15),
      Pattern("company_domain", "sender_trust", 10),
      Pattern("professional_html", "content_structure", 20),
      Pattern("transaction_table", "content_structure", 15),
      Pattern("receipt_format", "content_structure", 15),
      Pattern("footer_links", "content_structure", 10),
      Pattern("date_format_valid", "format_quality", 15),
      Pattern("currency_symbol", "format_quality", 10),
      Pattern("structured_data", "format_quality", 10),
      Pattern("unsubscribe_link", "negative_penalties", -30),
      Pattern("newsletter_keyword", "negative_penalties", -25),
      Pattern("marketing_keyword", "negative_penalties", -20),
      Pattern("promotional", "negative_penalties", -15),
      Pattern("spam_indicators", "negative_penalties", -40) }

PatternNames == {p.name : p \in PatternTable}

\* the cap in each category's heading: (max 50), ..., (max -50)
CategoryCap(category) ==
    CASE category = "subscription_indicators" -> 50
      [] category = "payment_indicators" -> 40
      [] category = "temporal_indicators" -> 35
      [] category = "sender_trust" -> 25
      [] category = "content_structure" -> 20
      [] category = "format_quality" -> 15
      [] category = "negative_penalties" -> 50

BONUS_CAP == 20
MAX_POSSIBLE == 200

Abs(n) == IF n < 0 THEN 0 - n ELSE n

RECURSIVE SumPoints(_)
SumPoints(ps) ==
    IF ps = {} THEN 0
    ELSE LET p == CHOOSE q \in ps : TRUE
         IN  p.points + SumPoints(ps \ {p})

MatchedIn(ms, category) ==
    {p \in PatternTable : p.category = category /\ p.name \in ms}

\* every match of the category counted, not only the best one
score_category_sum(ms, category) == SumPoints(MatchedIn(ms, category))

\* Score: max(50, 45) = 50 (the best match in the category)
score_category(ms, category) ==
    LET hits == MatchedIn(ms, category)
    IN  IF hits = {} THEN 0
        ELSE LET best == CHOOSE p \in hits :
                             \A q \in hits : Abs(q.points) <= Abs(p.points)
             IN  IF best.points < 0
                 THEN 0 - Min(CategoryCap(category), Abs(best.points))
                 ELSE Min(CategoryCap(category), best.points)

Combination(name, needs, points) ==
    [name |-> name, needs |-> needs, points |-> points]

BonusTable ==
    { Combination("perfect_subscription",
          {"subscription_keyword", "price_with_currency", "monthly_yearly"}, 20),
      Combination("perfect_payment",
          {"payment_confirmed", "amount_total", "payment_method"}, 15),
      Combination("perfect_renewal",
          {"renewal_keyword", "renewal_date", "price_with_currency"}, 15),
      Combination("known_service_confirmed",
          {"known_service", "payment_confirmed"}, 10) }

\* if all(...matched...): bonus_combinations += points, for each combination.
\* The condition is read as "every pattern of the combination matched"; as
\* written, all() over the three non-empty names is true for every text.
bonus_combinations(ms) ==
    SumPoints({c \in BonusTable : c.needs \subseteq ms})

ScoreBreakdown(ms) ==
    [ subscription_indicators |-> score_category(ms, "subscription_indicators"),
      payment_indicators |-> score_category(ms, "payment_indicators"),
      temporal_indicators |-> score_category(ms, "temporal_indicators"),
      sender_trust |-> score_category(ms, "sender_trust"),
      content_structure |-> score_category(ms, "content_structure"),
      format_quality |-> score_category(ms, "format_quality"),
      bonus_combinations |-> bonus_combinations(ms),
      negative_penalties |-> score_category(ms, "negative_penalties") ]

ZeroBreakdown == ScoreBreakdown({})

\* the total with the penalties left out of the sum
total_without_penalties(b) ==
    b.subscription_indicators + b.payment_indicators + b.temporal_indicators
    + b.sender_trust + b.content_structure + b.format_quality
    + b.bonus_combinations

\* ScoreBreakdown.total
total(b) ==
    b.subscription_indicators + b.payment_indicators + b.temporal_indicators
    + b.sender_trust + b.content_structure + b.format_quality
    + b.bonus_combinations + b.negative_penalties

ScoreIdle ==
    /\ matched = {}
    /\ score = ZeroBreakdown
    /\ scored = FALSE

(***************************************************************************)
(* MarketingEmailDetector.analyze on its own.                              *)
(***************************************************************************)
\* every combination of pattern matches an email can give
MarketingFeatures ==
    [ subject_matches : 0..2, marketing_sender : BOOLEAN, unsubscribe : BOOLEAN,
      body_phrases : BOOLEAN, whitelisted : BOOLEAN, blacklisted : BOOLEAN,
      not_marketing_matches : 0..2 ]

MarketingIdle ==
    /\ email_data = [domain |-> NoSender, m |-> NoFeatures]
    /\ marketing_out = << >>

(***************************************************************************)
(* Confidence levels of the v2.2 scoring.  A percentage is counted in      *)
(* halves of a percent, which holds total / 200 * 100 exactly.             *)
(***************************************************************************)
PCT_SCALE == 2

\* ScoreBreakdown.percentage: min(100.0, max(0.0, (self.total / 200) * 100))
percentage(b) ==
    Min(100 * PCT_SCALE, Max(0, (total(b) * 100 * PCT_SCALE) \div MAX_POSSIBLE))

\* the returns of the HIGH and the MEDIUM branch exchanged
get_confidence_level_swapped(p) ==
    IF p >= 90 * PCT_SCALE THEN "VERY_HIGH"
    ELSE IF p >= 75 * PCT_SCALE THEN "MEDIUM"
    ELSE IF p >= 50 * PCT_SCALE THEN "HIGH"
    ELSE "LOW"

get_confidence_level(p) ==
    IF p >= 90 * PCT_SCALE THEN "VERY_HIGH"
    ELSE IF p >= 75 * PCT_SCALE THEN "HIGH"
    ELSE IF p >= 50 * PCT_SCALE THEN "MEDIUM"
    ELSE "LOW"

\* class ConfidenceLevel, in the order LOW < MEDIUM < HIGH < VERY_HIGH
ConfidenceLevel == <<"LOW", "MEDIUM", "HIGH", "VERY_HIGH">>

LevelRank(l) == CHOOSE i \in 1..Len(ConfidenceLevel) : ConfidenceLevel[i] = l

\* the percentages get_confidence_level is applied to
Percentages == (0 - 2)..(100 * PCT_SCALE + 2)

LevelIdle ==
    /\ pct = <<0, 0>>
    /\ lvl = << >>

(***************************************************************************)
(* Subscription detection: quick_keyword_filter, analyze_with_llm and      *)
(* detect_subscription.  The text of an LLM reply is a sequence of tokens: *)
(* a markdown fence, the word json, prose, or one JSON value.              *)
(***************************************************************************)
MaxCalls == 2       \* calls of detect_subscription on one input

\* a parsed JSON value; absent members are "absent" and -1
JsonValue(type, is_subscription, confidence) ==
    [type |-> type, is_subscription |-> is_subscription, confidence |-> confidence]

\* the tokens that are one JSON value, and what json.loads makes of them
JsonTokens ==
    { "{sub95}", "{notsub10}", "{}", "{sub}", "[]", "null", "string" }

JsonOf(tok) ==
    CASE tok = "{sub95}" -> JsonValue("object", "true", 95)
      [] tok = "{notsub10}" -> JsonValue("object", "false", 10)
      [] tok = "{}" -> JsonValue("object", "absent", 0 - 1)
      [] tok = "{sub}" -> JsonValue("object", "true", 0 - 1)
      [] tok = "[]" -> JsonValue("array", "absent", 0 - 1)
      [] tok = "null" -> JsonValue("null", "absent", 0 - 1)
      [] tok = "string" -> JsonValue("string", "absent", 0 - 1)

\* json.loads raises unless the text is exactly one JSON value
IsJson(t) == Len(t) = 1 /\ t[1] \in JsonTokens

\* what requests.post gives: it raises, or a status, a body that is JSON or
\* not, and the text of the body's 'response' member
Reply(post_raises, status_code, body_is_json, response) ==
    [ post_raises |-> post_raises, status_code |-> status_code,
      body_is_json |-> body_is_json, response |-> response ]

LLMReplies ==
    { Reply(TRUE, 0, FALSE, << >>),
      Reply(FALSE, 500, FALSE, << >>),
      Reply(FALSE, 200, FALSE, << >>),
      Reply(FALSE, 200, TRUE, << >>),
      Reply(FALSE, 200, TRUE, <<"prose">>),
      Reply(FALSE, 200, TRUE, <<"prose", "{sub95}">>),
      Reply(FALSE, 200, TRUE, <<"fence", "json", "{sub95}", "fence">>),
      Reply(FALSE, 200, TRUE, <<"fence", "{notsub10}", "fence">>),
      Reply(FALSE, 200, TRUE, <<"fence", "prose", "fence">>) }
    \cup { Reply(FALSE, 200, TRUE, <<tok>>) : tok \in JsonTokens }

\* result_text.split(fence)[1] for a text that starts with a fence
RECURSIVE UpToFence(_)
UpToFence(t) ==
    IF t = << >> \/ Head(t) = "fence" THEN << >>
    ELSE <<Head(t)>> \o UpToFence(Tail(t))

\* the markdown code block removal of analyze_with_llm
StripFence(t) ==
    IF t # << >> /\ Head(t) = "fence"
    THEN LET inner == UpToFence(Tail(t))
         IN  IF inner # << >> /\ Head(inner) = "json" THEN Tail(inner) ELSE inner
    ELSE t

\* the dict analyze_with_llm returns from its except branch and for a
\* status other than 200
ErrorResult == JsonValue("object", "false", 0)

analyze_with_llm(reply) ==
    IF reply.post_raises THEN ErrorResult
    ELSE IF reply.status_code # 200 THEN ErrorResult
    ELSE IF ~reply.body_is_json THEN ErrorResult
    ELSE LET result_text == StripFence(reply.response)
         IN  IF IsJson(result_text) THEN JsonOf(result_text[1]) ELSE ErrorResult

\* what a call of detect_subscription comes to
Outcome(raises, is_subscription, confidence, document_type) ==
    [ raises |-> raises, is_subscription |-> is_subscription,
      confidence |-> confidence, document_type |-> document_type ]

\* STEP 3: llm_result.get(...) needs a dict; the truth value of
\* llm_result.get('is_subscription') selects the paperless block
FormatForPaperless(llm_result) ==
    IF llm_result.type # "object"
    THEN Outcome(TRUE, "absent", 0 - 1, "none")
    ELSE Outcome(FALSE, llm_result.is_subscription, llm_result.confidence,
                 IF llm_result.is_subscription = "true"
                 THEN "Subscription Notification" ELSE "Email")

\* STEP 1 of detect_subscription: no keyword, no LLM call
NoKeywords == Outcome(FALSE, "false", 0, "Email")

detect_subscription(reply) == FormatForPaperless(analyze_with_llm(reply))

DetectIdle ==
    /\ keyword_hit = FALSE
    /\ llm_log = << >>
    /\ detect_out = << >>

(***************************************************************************)
(* The evidence store: table email_evidence written by save_email_evidence *)
(* and table email_classifications written by save_classification.  The    *)
(* workers of the scanner's thread pool each hold one result to persist.   *)
(***************************************************************************)
MaxWorkers == 2     \* workers that persist at the same time

Workers == 1..MaxWorkers

\* input references: Message-ID of an email, group_id of a sender group
Refs == {"ref1", "ref2"}

Tables == {"email_evidence", "email_classifications"}

\* a worker's task: the reference it classified and what it found
Tasks == [ref : Refs, confidence : {80, 95}, is_marketing : BOOLEAN]

\* the row of a worker's result; llm_reasoning names the writer
EvidenceRow(w, task) ==
    [ email_message_id |-> task.ref, confidence_score |-> task.confidence,
      llm_reasoning |-> w ]

ClassificationRow(w, task) ==
    [ group_id |-> task.ref, is_marketing |-> task.is_marketing, source |-> w ]

\* INSERT INTO email_evidence (...) VALUES (...)
Insert(rows, row) == Append(rows, row)

\* an update that leaves the stored row's other columns as they were
UpdateFlagOnly(table, row) ==
    IF table[row.group_id] = << >>
    THEN [table EXCEPT ![row.group_id] = <<row>>]
    ELSE [table EXCEPT ![row.group_id] =
             <<[table[row.group_id][1] EXCEPT !.is_marketing = row.is_marketing]>>]

\* INSERT OR REPLACE INTO email_classifications, group_id INTEGER PRIMARY KEY
InsertOrReplace(table, row) == [table EXCEPT ![row.group_id] = <<row>>]

NoRows == [r \in Refs |-> << >>]

StoreIdle ==
    /\ tasks = [w \in Workers |-> [ref |-> "ref1", confidence |-> 80,
                                   is_marketing |-> FALSE]]
    /\ saved = [w \in Workers |-> {}]
    /\ email_evidence = << >>
    /\ email_classifications = NoRows
    /\ last_write = [t \in Tables |-> NoRows]

(***************************************************************************)
(* Text normalization: normalize_text, the accent removal of               *)
(* quick_keyword_filter and FuzzyMatcher._normalize_ocr.  A text is the    *)
(* sequence of its characters; "´" is the combining acute accent.          *)
(***************************************************************************)
MaxText == 3        \* characters of a normalized text

Alphabet == {"a", "A", "á", "Á", "´", "r", "n", "m", " ", "\t"}

RECURSIVE TextsOfLength(_)
TextsOfLength(n) ==
    IF n = 0 THEN {<< >>}
    ELSE {Append(t, c) : t \in TextsOfLength(n - 1), c \in Alphabet}

Texts == UNION {TextsOfLength(n) : n \in 0..MaxText}

\* unicodedata.normalize('NFKD', c) of one character
Decompose(c) ==
    CASE c = "á" -> <<"a", "´">>
      [] c = "Á" -> <<"A", "´">>
      [] OTHER -> <<c>>

RECURSIVE NFKD(_)
NFKD(t) == IF t = << >> THEN << >> ELSE Decompose(Head(t)) \o NFKD(Tail(t))

\* unicodedata.combining(c)
combining(c) == c = "´"

\* normalize_text: NFKD, drop the combining marks, lower()
normalize_text(t) == Lower(SelectSeq(NFKD(t), LAMBDA c : ~combining(c)))

\* content.replace('á', 'a') ... of quick_keyword_filter
ReplaceAccent(c) == IF c = "á" THEN "a" ELSE c

\* quick_keyword_filter: lower(), then the accented letters replaced
remove_accents(t) == [i \in 1..Len(t) |-> ReplaceAccent(Lower(t)[i])]

IsSpace(c) == c \in {" ", "\t"}

RECURSIVE DropSpaces(_)
DropSpaces(t) ==
    IF t # << >> /\ IsSpace(Head(t)) THEN DropSpaces(Tail(t)) ELSE t

\* re.sub(r'\s+', ' ', text)
RECURSIVE CollapseSpaces(_)
CollapseSpaces(t) ==
    IF t = << >> THEN << >>
    ELSE IF IsSpace(Head(t)) THEN <<" ">> \o CollapseSpaces(DropSpaces(Tail(t)))
    ELSE <<Head(t)>> \o CollapseSpaces(Tail(t))

\* text.replace('  ', ' '): one pass over pairs of blanks
RECURSIVE ReplaceDoubleSpace(_)
ReplaceDoubleSpace(t) ==
    IF t = << >> THEN << >>
    ELSE IF Len(t) >= 2 /\ t[1] = " " /\ t[2] = " "
    THEN <<" ">> \o ReplaceDoubleSpace(Tail(Tail(t)))
    ELSE <<Head(t)>> \o ReplaceDoubleSpace(Tail(t))

\* text.replace('rn', 'm')
RECURSIVE ReplaceRn(_)
ReplaceRn(t) ==
    IF t = << >> THEN << >>
    ELSE IF Len(t) >= 2 /\ t[1] = "r" /\ t[2] = "n"
    THEN <<"m">> \o ReplaceRn(Tail(Tail(t)))
    ELSE <<Head(t)>> \o ReplaceRn(Tail(t))

\* _normalize_ocr with the blanks removed pair by pair
normalize_ocr_pairwise(t) == ReplaceRn(ReplaceDoubleSpace(t))

\* FuzzyMatcher._normalize_ocr
normalize_ocr(t) == ReplaceRn(CollapseSpaces(t))

\* a function applied once and applied to its own result
Twice(once, twice) == [once |-> once, twice |-> twice]

NormIdle ==
    /\ text = << >>
    /\ normalized = << >>

(***************************************************************************)
(* The scanner's checkpoint and resume: scan_with_progress with            *)
(* load_checkpoint and save_checkpoint.                                    *)
(***************************************************************************)
MboxSize == 103          \* emails in the mbox
MaxRestarts == 1         \* times the scanner is stopped and started again
CHECKPOINT_INTERVAL == 100

Emails == 0..(MboxSize - 1)

ScanIdle ==
    /\ idx = 0
    /\ last_processed_index = 0
    /\ processed = [e \in Emails |-> 0]
    /\ scan_status = "stopped"
    /\ restarts = 0

(***************************************************************************)
(* analyze_with_llm_retry of the v2.0 scanner: the retry loop around       *)
(* analyze_with_llm, which here lets requests' exceptions out.             *)
(***************************************************************************)
MaxMails == 3       \* emails the scan loop hands to analyze_with_llm_retry

MAX_RETRIES == 3

\* configured next to MAX_RETRIES; the function computes its waits itself
RETRY_DELAYS == <<1, 2, 4>>

Mails == 1..MaxMails

RECURSIVE Pow2(_)
Pow2(n) == IF n = 0 THEN 1 ELSE 2 * Pow2(n - 1)

\* wait_time = 2 ** attempt
wait_time(a) == Pow2(a)

\* the dicts the LLM's JSON answer decodes to, by their is_subscription
LLMResults == {"subscription", "not_subscription"}

\* exceptions of requests.post and json.loads that are not requests.Timeout
OtherErrors == {"ConnectionError", "JSONDecodeError"}

RetryIdle ==
    /\ mail = 1
    /\ attempt = 0
    /\ llm_attempts = [m \in Mails |-> 0]
    /\ timed_out = [m \in Mails |-> 0]
    /\ sleeps = [m \in Mails |-> << >>]
    /\ stats_retries = 0
    /\ retry_out = [m \in Mails |-> << >>]
    /\ failed_queue = {}
    /\ retry_escaped = << >>

(***************************************************************************)
(* Auto-scaling of the v2.1 scanner: ResourceMonitor's flags and           *)
(* adjust_workers.                                                         *)
(***************************************************************************)
CPU_LIMIT_PERCENT == 70

MEMORY_LIMIT_PERCENT == 70

\* worker counts HardwareDetector.detect returns
WorkerCounts == {2, 4, 6, 8}

\* psutil readings, in percent: below, at and above the limits
Readings == {50, 70, 96}

\* is_overloaded of the resource monitor
is_overloaded == cpu_overload \/ memory_overload

WorkersIdle ==
    /\ max_workers = 0
    /\ current_workers = 0
    /\ cpu_overload = FALSE
    /\ memory_overload = FALSE
    /\ last_adjust = << >>

(***************************************************************************)
(* The Paperless-NGX pre-consume script pre_consume_classify_fixed.sh.     *)
(* A path is a record of directory, name without extension and extension.  *)
(***************************************************************************)
ConsumeDir == "/usr/src/paperless/data/tmp/tmpxsaoe_3z"

\* documents Paperless hands to the script as $1
Documents ==
    {[dir |-> ConsumeDir, stem |-> s[1], ext |-> s[2]] :
        s \in {<<"zpráva", "pdf">>, <<"scan", "jpg">>,
               <<"note", "txt">>, <<"data", "bin">>}}

NoDocument == [dir |-> "", stem |-> "", ext |-> ""]

\* the script as it was before the fix: STEP 1 moved the document to a
\* name without diacritics and went on with the new path
DOCUMENT_PATH_renamed(arg) ==
    [arg EXCEPT !.stem = IF @ = "zpráva" THEN "zprava" ELSE @]

\* DOCUMENT_PATH="$1"
DOCUMENT_PATH(arg) == arg

\* TEMP_TEXT="/tmp/paperless_classify_$$.txt"
TEMP_TEXT == [dir |-> "/tmp", stem |-> "paperless_classify_pid", ext |-> "txt"]

\* METADATA_FILE="${DOCUMENT_PATH}.json"
METADATA_FILE(p) == [p EXCEPT !.ext = @ \o ".json"]

\* what file -b --mime-type answers; "unknown" when it fails
MimeTypes == {"application/pdf", "image/jpeg", "text/plain",
              "application/octet-stream", "unknown"}

\* the case statement of STEP 2: tool is whether pdftotext / tesseract is
\* installed, ok whether the extracting command succeeded, out what it
\* wrote; the temp file then holds no byte ("empty"), the newline of
\* echo "" ("newline") or text
extract_text(file_type, tool, ok, out) ==
    CASE file_type \in {"application/pdf", "image/jpeg"} ->
            IF tool THEN (IF ok THEN out ELSE "newline") ELSE "newline"
      [] file_type = "text/plain" ->
            IF ok THEN out ELSE "newline"
      [] OTHER ->
            \* the status of cat ... | head is head's: no fallback echo
            IF ok THEN out ELSE "empty"

\* [ -s "$TEMP_TEXT" ]
has_size(content) == content # "empty"

\* output of document_classifier_wrapper.py --json: nothing, or the
\* fields the script greps out of it
DocTypes == {"invoice", "court_verdict", "marketing_email", ""}
Correspondents == {"ACME", ""}
Confidences == {<< >>, <<49>>, <<50>>}
Classifications ==
    {<< >>} \cup
    {<<[type |-> t, correspondent |-> c, confidence |-> n]>> :
        t \in DocTypes, c \in Correspondents, n \in Confidences}

\* the mapping of our document types to Paperless types (the Czech names
\* are written here without their diacritics)
PAPERLESS_TYPE(doc_type) ==
    CASE doc_type = "invoice" -> "faktura"
      [] doc_type = "receipt" -> "uctenka"
      [] doc_type = "bank_statement" -> "bankovni vypis"
      [] doc_type \in {"police_protocol_cz", "police_protocol_de"} ->
            "policejni protokol"
      [] doc_type = "court_summons" -> "soudni predvolani"
      [] doc_type = "court_verdict" -> "soudni rozsudek"
      [] doc_type = "court_decision" -> "soudni usneseni"
      [] doc_type = "prosecutor_decision" ->
            "rozhodnuti statniho zastupitelstvi"
      [] OTHER -> ""

METADATA_MIN_CONFIDENCE == 50

\* [ -n "$PAPERLESS_TYPE" ] && [ "$CONFIDENCE" -ge 50 ]; the test fails
\* on a CONFIDENCE that is not a number
wants_metadata(c) ==
    /\ PAPERLESS_TYPE(c.type) # ""
    /\ c.confidence # << >>
    /\ c.confidence[1] >= METADATA_MIN_CONFIDENCE

\* the JSON the here-document writes
metadata_json(p, c) ==
    [title |-> IF c.correspondent # ""
                  THEN p.stem \o " - " \o c.correspondent
                  ELSE p.stem,
     document_type |-> PAPERLESS_TYPE(c.type),
     correspondent |-> IF c.correspondent # ""
                          THEN c.correspondent ELSE "neznamy"]

ConsumeIdle ==
    /\ document_arg = NoDocument
    /\ sh_pc = "idle"
    /\ files = {}
    /\ temp_text = << >>
    /\ classification = << >>
    /\ metadata = << >>
    /\ stdout = << >>

(***************************************************************************)
(* The sequential restart script of the Paperless-NGX containers.          *)
(***************************************************************************)
Containers == {"paperless-ngx-db-1", "paperless-ngx-broker-1",
               "paperless-ngx-webserver-1", "paperless-worker",
               "paperless-beat"}

LockFiles == {"migration_lock", "celerybeat-schedule.db"}

\* the docker start commands of phase 2 with worker and beat exchanged
StartOrder_beat_first ==
    <<"paperless-ngx-db-1", "paperless-ngx-broker-1",
      "paperless-ngx-webserver-1", "paperless-beat", "paperless-worker">>

\* the docker start commands of phase 2, in the order of the script
StartOrder ==
    <<"paperless-ngx-db-1", "paperless-ngx-broker-1",
      "paperless-ngx-webserver-1", "paperless-worker", "paperless-beat">>

\* the lock file a running container takes: the webserver's migrations,
\* worker and beat on the celerybeat schedule
LockOf(c) ==
    CASE c = "paperless-ngx-webserver-1" -> {"migration_lock"}
      [] c \in {"paperless-worker", "paperless-beat"} ->
            {"celerybeat-schedule.db"}
      [] OTHER -> {}

RestartIdle ==
    /\ rs_pc = "idle"
    /\ running = {}
    /\ locks = {}
    /\ stopped = {}
    /\ removed = {}
    /\ started = << >>
    /\ at_start = << >>

(***************************************************************************)
(* The virtual fitting room's POST /api/try-on handler. Every await of the *)
(* handler is a point where another request can run.                      *)
(***************************************************************************)
MaxRequests == 2    \* try-on requests in flight

Requests == 1..MaxRequests

PersonNames == {"John"}

ClothingNames == {"tricko"}

\* how the call of the CatVTON server ends: fetch or a file operation
\* throws, the status is not OK, the JSON has no success / result_image,
\* or the result image is delivered and written
CatVtonOutcomes == {"throws", "not_ok", "no_image", "image"}

\* /uploads/person/<unique name>, /uploads/clothing/..., /uploads/results/...
UploadUrl(kind, r) == <<kind, r>>

\* let resultUrl = ''
NoUrl == << >>

\* the result URL with the fallback left out: resultUrl keeps its initial ''
result_url_no_fallback(outcome, r) ==
    IF outcome = "image" THEN UploadUrl("results", r) ELSE NoUrl

\* resultUrl after the try / catch around the CatVTON call
result_url(outcome, r) ==
    IF outcome = "image"
       THEN UploadUrl("results", r)
       ELSE UploadUrl("person", r)

\* prisma.<table>.findFirst({ where: { name } }): id of the first row with
\* that name, 0 when there is none
findFirst(table, name) ==
    IF \E i \in DOMAIN table : table[i].name = name
       THEN CHOOSE i \in DOMAIN table :
               /\ table[i].name = name
               /\ \A j \in DOMAIN table : table[j].name = name => i <= j
       ELSE 0

NewRequest ==
    [pc |-> "new", personName |-> "", clothingName |-> "", person |-> 0,
     clothing |-> 0, outcome |-> "", resultUrl |-> NoUrl]

TryOnIdle ==
    /\ req = [r \in Requests |-> NewRequest]
    /\ person_table = << >>
    /\ clothing_table = << >>
    /\ tryon_table = << >>
    /\ responses = [r \in Requests |-> << >>]

(***************************************************************************)
(* The fitting room's page (person side) and its CameraCapture component:  *)
(* the component is mounted while personMode is camera, and its state is   *)
(* lost when the page switches back to upload.                             *)
(***************************************************************************)
MaxStreams == 3     \* MediaStreams getUserMedia hands out
MaxShots == 3       \* shots taken
MaxMounts == 2      \* times the page mounts a CameraCapture
MaxPending == 2     \* getUserMedia requests waiting for their answer

\* the page passes multiShot={true}
multiShot == TRUE

\* prev.filter((_, i) => i !== index)
RemoveAt(s, index) ==
    [i \in 1..(Len(s) - 1) |-> IF i < index THEN s[i] ELSE s[i + 1]]

\* hasPersonData in camera mode
hasPersonData == Len(personCameraShots) > 0

CameraIdle ==
    /\ personMode = "upload"
    /\ instance = 0
    /\ isStreaming = FALSE
    /\ shots = << >>
    /\ stream = << >>
    /\ pending = << >>
    /\ live = {}
    /\ streams_given = 0
    /\ shots_taken = 0
    /\ personCameraShots = << >>
    /\ submitted = << >>

\* every application component at rest
AppIdle ==
    /\ RetryIdle
    /\ WorkersIdle
    /\ ConsumeIdle
    /\ RestartIdle
    /\ TryOnIdle
    /\ CameraIdle

\* the detectors, the scorer, the store and the scanner at rest
DetectorsIdle ==
    /\ LegalIdle
    /\ ScoreIdle
    /\ MarketingIdle
    /\ LevelIdle
    /\ DetectIdle
    /\ StoreIdle
    /\ NormIdle
    /\ ScanIdle

\* everything at rest but one application component
IdleButRetry ==
    /\ DetectorsIdle
    /\ WorkersIdle
    /\ ConsumeIdle
    /\ RestartIdle
    /\ TryOnIdle
    /\ CameraIdle

IdleButWorkers ==
    /\ DetectorsIdle
    /\ RetryIdle
    /\ ConsumeIdle
    /\ RestartIdle
    /\ TryOnIdle
    /\ CameraIdle

IdleButConsume ==
    /\ DetectorsIdle
    /\ RetryIdle
    /\ WorkersIdle
    /\ RestartIdle
    /\ TryOnIdle
    /\ CameraIdle

IdleButRestart ==
    /\ DetectorsIdle
    /\ RetryIdle
    /\ WorkersIdle
    /\ ConsumeIdle
    /\ TryOnIdle
    /\ CameraIdle

IdleButTryon ==
    /\ DetectorsIdle
    /\ RetryIdle
    /\ WorkersIdle
    /\ ConsumeIdle
    /\ RestartIdle
    /\ CameraIdle

IdleButCamera ==
    /\ DetectorsIdle
    /\ RetryIdle
    /\ WorkersIdle
    /\ ConsumeIdle
    /\ RestartIdle
    /\ TryOnIdle

\* ---- end of the rest states ----

ExtIdle ==
    /\ AppIdle
    /\ MarketingIdle
    /\ LevelIdle
    /\ DetectIdle
    /\ StoreIdle
    /\ NormIdle
    /\ ScanIdle

Init ==
    /\ pc = "marketing"
    /\ avail \in [Detectors -> BOOLEAN]
    /\ has_text \in BOOLEAN
    /\ from_domain \in (IF has_text THEN SenderDomains ELSE {NoSender})
    /\ calls = << >>
    /\ results = << >>
    /\ attempts = << >>
    /\ verdict = NoVerdict
    /\ raised = {}
    /\ escaped = FALSE
    /\ LegalIdle
    /\ ScoreIdle
    /\ ExtIdle

Next ==
    \/ MarketingStep
    \/ LegalStep
    \/ ReceiptStep
    \/ BankStep
    \/ Select

Spec == Init /\ [][Next]_vars

(***************************************************************************)
(* Claims about the router.                                                *)
(***************************************************************************)
ModuleOf(d) ==
    CASE d = "marketing" -> "marketing_email_detector"
      [] d = "legal" -> "legal_doc_identifier"
      [] d = "receipt" -> "cz_receipt_intelligence"
      [] d = "bank" -> "bank_statement_processor"

MinConfidence(module) ==
    CASE module = "marketing_email_detector" -> MARKETING_THRESHOLD
      [] module = "legal_doc_identifier" -> LEGAL_THRESHOLD
      [] module = "cz_receipt_intelligence" -> RECEIPT_THRESHOLD
      [] module = "bank_statement_processor" -> BANK_THRESHOLD

ByMarketing == verdict.classified_by = "marketing_email_detector"

Range(seq) == {seq[i] : i \in 1..Len(seq)}

\* C1: where the marketing detector is loaded and there is text, it is the
\* first detector called; a marketing result at or above the marketing
\* threshold is returned as the verdict (no such result is ever passed over)
\* and then no other detector has been called.
C1_MarketingFirst ==
    /\ (avail["marketing"] /\ has_text /\ calls # << >>) => calls[1] = "marketing"
    /\ \A a \in Range(attempts) :
          (a.module = "marketing_email_detector"
             /\ a.confidence >= MARKETING_THRESHOLD)
              => (ByMarketing /\ verdict.confidence = a.confidence)
    /\ ByMarketing =>
          /\ verdict.state = "final"
          /\ verdict.document_type = "marketing_email"
          /\ verdict.confidence >= MARKETING_THRESHOLD
          /\ calls = <<"marketing">>
          /\ pc = "done"

C1_Witness ==
    /\ pc = "done"
    /\ ByMarketing
    /\ verdict.details = "content"
    /\ verdict.confidence < NEWSLETTER_CONFIDENCE
    /\ avail["legal"] /\ avail["bank"] /\ avail["receipt"]

\* the sender's domain equals an entry of the table or ends with one
EndsWith(s, e) ==
    /\ Len(e) <= Len(s)
    /\ \A k \in 1..Len(e) : s[Len(s) - Len(e) + k] = e[k]

KnownMarketingDomain(domain) ==
    \E e \in NEWSLETTER_DOMAINS : EndsWith(Lower(domain), e)

\* C2: an input whose sender domain is in the newsletter domain table gets
\* the verdict marketing with confidence 100 from the domain check itself,
\* with no content score computed and no other detector called.
C2_KnownDomainShortCircuit ==
    (pc # "marketing" /\ avail["marketing"] /\ KnownMarketingDomain(from_domain))
        => /\ pc = "done"
           /\ verdict.state = "final"
           /\ verdict.document_type = "marketing_email"
           /\ verdict.confidence = 100
           /\ verdict.details = "newsletter_domain"
           /\ calls = <<"marketing">>
           /\ Len(attempts) = 1
           /\ results = << >>

C2_Witness ==
    /\ pc = "done"
    /\ KnownMarketingDomain(from_domain)
    /\ from_domain \notin NEWSLETTER_DOMAINS
    /\ verdict.confidence = 100
    /\ ByMarketing

\* the detectors classify_document has to consult for this input
Consulted ==
    IF has_text THEN {d \in Detectors : avail[d]} ELSE {}

\* C3: a detector that raises gives no verdict and the router goes on to the
\* next detector; when every consulted detector raised the verdict is
\* unclassified; no exception leaves classify_document.
C3_DetectorErrorsContained ==
    /\ ~escaped
    /\ \A d \in raised :
          /\ verdict.classified_by # ModuleOf(d)
          /\ \A a \in Range(attempts) : a.module # ModuleOf(d)
    /\ pc = "done" =>
          /\ ~ByMarketing => Range(calls) = Consulted
          /\ (raised # {} /\ raised = Range(calls)) => verdict.state = "unclassified"

C3_Witness ==
    /\ pc = "done"
    /\ raised = Detectors
    /\ verdict.state = "unclassified"

C3_WitnessGoesOn ==
    /\ pc = "done"
    /\ raised = {"marketing", "legal"}
    /\ verdict.state = "final"
    /\ verdict.classified_by = "cz_receipt_intelligence"

\* C4: a detector's result is accepted (returned at once by step 0, or put
\* on the results list) exactly when its confidence is at least the
\* detector's minimum: marketing 25, legal 70, bank 70, receipt 20.
Accepted(a) ==
    \/ a \in Range(results)
    \/ a.module = "marketing_email_detector" /\ ByMarketing

C4_AcceptedIffAtLeastMinimum ==
    \A a \in Range(attempts) :
        Accepted(a) <=> (a.confidence >= MinConfidence(a.module))

\* C4, the half the code keeps: nothing below its minimum is accepted.
C4_NeverBelowMinimum ==
    /\ \A a \in Range(results) : a.confidence >= MinConfidence(a.module)
    /\ verdict.state = "final" =>
          verdict.confidence >= MinConfidence(verdict.classified_by)

\* C6: a classification ends in exactly one of final verdict and unclassified;
\* a final verdict comes from a detector whose result is at least its minimum;
\* when no detector's result clears its minimum the verdict is unclassified and
\* records the highest-scoring result that was returned.
C6_TerminalStates ==
    /\ pc # "done" => (verdict.state = "none" /\ ENABLED Next)
    /\ pc = "done" =>
          /\ verdict.state \in {"final", "unclassified"}
          /\ verdict.state = "final" =>
                /\ verdict.classified_by \in {ModuleOf(d) : d \in Range(calls)}
                /\ verdict.confidence >= MinConfidence(verdict.classified_by)
                /\ verdict.near_miss = NoNearMiss
          /\ (\A a \in Range(attempts) : a.confidence < MinConfidence(a.module))
                => verdict.state = "unclassified"
          /\ verdict.state = "unclassified" =>
                /\ verdict.classified_by = "none"
                /\ \A a \in Range(attempts) :
                      a.confidence <= verdict.near_miss.confidence
                /\ attempts # << >> =>
                      \E a \in Range(attempts) :
                          /\ a.module = verdict.near_miss.module
                          /\ a.confidence = verdict.near_miss.confidence
                /\ attempts = << >> => verdict.near_miss = NoNearMiss

C6_Witness ==
    /\ pc = "done"
    /\ verdict.state = "unclassified"
    /\ Len(attempts) >= 2
    /\ verdict.near_miss.module = "legal_doc_identifier"
    /\ verdict.near_miss.confidence = 50

\* position of a module in a priority order
IndexIn(order, module) == CHOOSE i \in 1..Len(order) : order[i] = module

InOrder(order, cs) ==
    \A i, j \in 1..Len(cs) :
        (i < j /\ cs[i] # "marketing" /\ cs[j] # "marketing")
            => IndexIn(order, cs[i]) < IndexIn(order, cs[j])

\* results that exceed their own detector's threshold
Clears(a) ==
    \/ a.module = "legal_doc_identifier" /\ a.confidence > LEGAL_THRESHOLD
    \/ a.module = "cz_receipt_intelligence" /\ a.confidence > RECEIPT_THRESHOLD
    \/ a.module = "bank_statement_processor" /\ a.confidence > BANK_THRESHOLD

Cleared == {a \in Range(attempts) : Clears(a)}

ModuleIndex(order, module) ==
    IndexIn(order, CHOOSE d \in {"legal", "receipt", "bank"} : ModuleOf(d) = module)

RouterIdle ==
    /\ pc = "idle"
    /\ avail = [d \in Detectors |-> TRUE]
    /\ has_text = TRUE
    /\ from_domain = NoSender
    /\ calls = << >>
    /\ results = << >>
    /\ attempts = << >>
    /\ verdict = NoVerdict
    /\ raised = {}
    /\ escaped = FALSE

InitLegal ==
    /\ RouterIdle
    /\ ScoreIdle
    /\ ExtIdle
    /\ features \in Features
    /\ legal_out = LegalResult("NONE", 0)

ClassifyLegal ==
    /\ legal_out.doc_type = "NONE"
    /\ legal_out' = classify_document(features)
    /\ UNCHANGED <<features, routerVars, scoreVars, extVars>>

NextLegal == ClassifyLegal

SpecLegal == InitLegal /\ [][NextLegal]_vars

Classified == legal_out.doc_type # "NONE"

\* the court and police keyword features
KeywordFeatures ==
    {"german_court", "german_police", "court_headers", "czech_police_headers"}

\* keyword k is the only feature the text has
OnlyFeature(k) == \A n \in FeatureNames : features[n] <=> n = k

Corroborated ==
    features["case_numbers"] \/ features["legal_refs"] \/ features["signatures"]

\* C5 as stated: a court or police keyword alone gives the reduced tier, the
\* same keyword with a case number, statutory reference or signature gives
\* 0.9, and 0.9 is never returned without one of these three.
C5_MaximumOnlyWithEvidence ==
    Classified =>
        /\ \A k \in KeywordFeatures : OnlyFeature(k) => legal_out.confidence < 90
        /\ \A k \in KeywordFeatures :
              (features[k] /\ Corroborated) => legal_out.confidence = 90
        /\ legal_out.confidence = 90 => Corroborated

\* C5, what classify_document keeps: a court or police keyword alone gives a
\* reduced tier (0.5, 0.6 or 0.7); a German court or police keyword or a Czech court header with
\* a case number, statutory reference or signature gives 0.9, a Czech police
\* header does so with a case number or statutory reference only; 0.9 is
\* never returned without one of the three, except for a Czech court or
\* prosecutor header accompanied by a court or prosecutor type.
C5_MaximumOnlyWithEvidenceOrType ==
    Classified =>
        /\ \A k \in KeywordFeatures :
              OnlyFeature(k) => legal_out.confidence \in {50, 60, 70}
        /\ \A k \in {"german_court", "german_police", "court_headers"} :
              (features[k] /\ Corroborated) => legal_out.confidence = 90
        /\ (features["czech_police_headers"]
              /\ (features["case_numbers"] \/ features["legal_refs"]))
                => legal_out.confidence = 90
        /\ legal_out.confidence = 90 =>
              \/ Corroborated
              \/ features["court_headers"] /\ features["court_types"]
              \/ features["prosecutor_headers"] /\ features["prosecutor_types"]

C5_Witness ==
    /\ Classified
    /\ features["german_court"]
    /\ features["case_numbers"]
    /\ ~features["signatures"] /\ ~features["legal_refs"]
    /\ legal_out = LegalResult("GERMAN_COURT", 90)

C5_WitnessKeywordOnly ==
    /\ Classified
    /\ OnlyFeature("german_court")
    /\ legal_out = LegalResult("GERMAN_COURT", 50)

(***************************************************************************)
(* The scorer on its own: a text is the set of pattern names it matches.   *)
(***************************************************************************)
InitScore ==
    /\ RouterIdle
    /\ LegalIdle
    /\ ScoreIdle
    /\ ExtIdle

\* the text matches one more pattern
Match(name) ==
    /\ ~scored
    /\ name \notin matched
    /\ Cardinality(matched) < MaxMatched
    /\ matched' = matched \cup {name}
    /\ UNCHANGED <<score, scored, routerVars, legalVars, extVars>>

\* SubscriptionScorer.score_text
ScoreText ==
    /\ ~scored
    /\ score' = ScoreBreakdown(matched)
    /\ scored' = TRUE
    /\ UNCHANGED <<matched, routerVars, legalVars, extVars>>

NextScore ==
    \/ \E name \in PatternNames : Match(name)
    \/ ScoreText

SpecScore == InitScore /\ [][NextScore]_vars

\* C8: the total of a ScoreBreakdown lies in 0..max_possible.
C8_TotalWithinRange ==
    scored => (0 <= total(score) /\ total(score) <= MAX_POSSIBLE)

\* C9: a category's score is the point value of its single highest-valued
\* matching pattern, never a sum of matches, and 0 when nothing matches; the
\* 50-point and the 45-point subscription pattern together give 50.
C9_BestMatchOnly ==
    scored =>
        /\ \A c \in Categories :
              LET hits == {p \in PatternTable : p.category = c /\ p.name \in matched}
              IN  /\ hits = {} => score[c] = 0
                  /\ hits # {} => \E p \in hits : score[c] = p.points
                  /\ c # "negative_penalties" =>
                        \A q \in hits : q.points <= score[c]
        /\ {"subscription_keyword", "renewal_keyword"} \subseteq matched
              => score["subscription_indicators"] = 50

C9_Witness ==
    /\ scored
    /\ {"subscription_keyword", "renewal_keyword"} \subseteq matched
    /\ score["subscription_indicators"] = 50
    /\ score["payment_indicators"] = 0

\* C10: every category's contribution stays within its cap: subscription 50,
\* payment 40, temporal 35, sender trust 25, content structure 20, format
\* quality 15, bonus combinations 20, penalties no lower than -50.
C10_WithinCaps ==
    scored =>
        /\ \A c \in Categories \ {"negative_penalties"} :
              0 <= score[c] /\ score[c] <= CategoryCap(c)
        /\ 0 <= score["bonus_combinations"]
        /\ score["bonus_combinations"] <= BONUS_CAP
        /\ score["negative_penalties"] <= 0
        /\ score["negative_penalties"] >= 0 - CategoryCap("negative_penalties")

\* the confidence level of the scored text
score_level == get_confidence_level(percentage(score))

notMarketing == <<routerVars, legalVars, scoreVars, levelVars, detectVars,
                  storeVars, normVars, scanVars, appVars>>

InitMarketing ==
    /\ RouterIdle
    /\ AppIdle
    /\ LegalIdle
    /\ ScoreIdle
    /\ LevelIdle
    /\ DetectIdle
    /\ StoreIdle
    /\ NormIdle
    /\ ScanIdle
    /\ email_data \in [domain : SenderDomains, m : MarketingFeatures]
    /\ marketing_out = << >>

\* is_marketing, confidence, details = self.marketing_detector.analyze(email_data)
Analyze ==
    /\ marketing_out = << >>
    /\ marketing_out' = <<analyze(email_data.domain, email_data.m)>>
    /\ UNCHANGED <<email_data, notMarketing>>

NextMarketing == Analyze

SpecMarketing == InitMarketing /\ [][NextMarketing]_vars

Analyzed == marketing_out # << >>

\* the only marketing evidence of the email is the marketing-sender signal
OnlySenderSignal(m) ==
    /\ m.subject_matches = 0
    /\ ~m.unsubscribe
    /\ ~m.body_phrases
    /\ ~m.blacklisted

\* C12: an email that matches a NOT_MARKETING pattern and whose marketing
\* evidence is only the generic marketing-sender signal (the newsletter
\* domain check did not fire) ends below the marketing threshold and is
\* classified as not marketing.
C12_NotificationNotMarketing ==
    (/\ Analyzed
     /\ marketing_out[1].via = "content"
     /\ email_data.m.not_marketing_matches >= 1
     /\ OnlySenderSignal(email_data.m))
        => /\ ~marketing_out[1].is_marketing
           /\ marketing_out[1].confidence < MARKETING_THRESHOLD

C12_Witness ==
    /\ Analyzed
    /\ marketing_out[1].via = "content"
    /\ email_data.m.not_marketing_matches = 1
    /\ email_data.m.marketing_sender
    /\ ~email_data.m.whitelisted
    /\ OnlySenderSignal(email_data.m)
    /\ marketing_out[1].confidence = 0
    /\ ~marketing_out[1].is_marketing

(***************************************************************************)
(* get_confidence_level applied to two percentages.                        *)
(***************************************************************************)
notLevel == <<routerVars, legalVars, scoreVars, marketingVars, detectVars,
              storeVars, normVars, scanVars, appVars>>

InitLevel ==
    /\ RouterIdle
    /\ AppIdle
    /\ LegalIdle
    /\ ScoreIdle
    /\ MarketingIdle
    /\ DetectIdle
    /\ StoreIdle
    /\ NormIdle
    /\ ScanIdle
    /\ pct \in Percentages \X Percentages
    /\ lvl = << >>

GetConfidenceLevel ==
    /\ lvl = << >>
    /\ lvl' = <<get_confidence_level(pct[1]), get_confidence_level(pct[2])>>
    /\ UNCHANGED <<pct, notLevel>>

NextLevel == GetConfidenceLevel

SpecLevel == InitLevel /\ [][NextLevel]_vars

\* C13: get_confidence_level is monotonic: for percentages p > q the level of
\* p is never lower than the level of q in LOW < MEDIUM < HIGH < VERY_HIGH.
C13_LevelMonotonic ==
    (lvl # << >> /\ pct[1] > pct[2]) => LevelRank(lvl[1]) >= LevelRank(lvl[2])

C13_Witness ==
    /\ lvl # << >>
    /\ pct[1] > pct[2]
    /\ lvl[1] = "HIGH"
    /\ lvl[2] = "MEDIUM"

(***************************************************************************)
(* detect_subscription called on one input, up to MaxCalls times.          *)
(***************************************************************************)
notDetect == <<routerVars, legalVars, scoreVars, marketingVars, levelVars,
               storeVars, normVars, scanVars, appVars>>

InitDetect ==
    /\ RouterIdle
    /\ AppIdle
    /\ LegalIdle
    /\ ScoreIdle
    /\ MarketingIdle
    /\ LevelIdle
    /\ StoreIdle
    /\ NormIdle
    /\ ScanIdle
    /\ keyword_hit \in BOOLEAN
    /\ llm_log = << >>
    /\ detect_out = << >>

\* STEP 1 returns: the keyword filter found nothing
DetectFiltered ==
    /\ Len(detect_out) < MaxCalls
    /\ ~keyword_hit
    /\ detect_out' = Append(detect_out, NoKeywords)
    /\ UNCHANGED <<keyword_hit, llm_log, notDetect>>

\* STEP 2 and 3: the LLM server is asked and gives some reply
DetectWithLLM ==
    /\ Len(detect_out) < MaxCalls
    /\ keyword_hit
    /\ \E reply \in LLMReplies :
          /\ llm_log' = Append(llm_log, reply)
          /\ detect_out' = Append(detect_out, detect_subscription(reply))
    /\ UNCHANGED <<keyword_hit, notDetect>>

NextDetect ==
    \/ DetectFiltered
    \/ DetectWithLLM

SpecDetect == InitDetect /\ [][NextDetect]_vars

\* the reply is the expected JSON object: status 200 and a text that is, bare
\* or inside a markdown fence, an object with is_subscription and confidence
ExpectedReply(reply) ==
    /\ ~reply.post_raises
    /\ reply.status_code = 200
    /\ reply.body_is_json
    /\ IsJson(StripFence(reply.response))
    /\ LET v == JsonOf(StripFence(reply.response)[1])
       IN  /\ v.type = "object"
           /\ v.is_subscription \in {"true", "false"}
           /\ v.confidence >= 0

\* C14: whenever the LLM call fails, returns a status other than 200 or
\* returns text that is not the expected JSON object, detect_subscription
\* returns is_subscription false with confidence 0; it does not raise and
\* does not report a subscription.
C14_FailedLLMDegrades ==
    keyword_hit =>
        \A i \in 1..Len(detect_out) :
            ~ExpectedReply(llm_log[i]) =>
                /\ ~detect_out[i].raises
                /\ detect_out[i].is_subscription = "false"
                /\ detect_out[i].confidence = 0

\* C14, what analyze_with_llm keeps: a failed request, a status other than
\* 200 and a text that is not JSON give is_subscription false, confidence 0.
C14_NoJsonDegrades ==
    keyword_hit =>
        \A i \in 1..Len(detect_out) :
            (\/ llm_log[i].post_raises
             \/ llm_log[i].status_code # 200
             \/ ~llm_log[i].body_is_json
             \/ ~IsJson(StripFence(llm_log[i].response)))
                => detect_out[i] = Outcome(FALSE, "false", 0, "Email")

\* C18: classifying the same input twice returns identical results.
C18_SameInputSameResult ==
    \A i, j \in 1..Len(detect_out) : detect_out[i] = detect_out[j]

\* C15: a sender is treated as a known marketing domain only when its domain
\* equals a table entry or ends with it; a domain that contains an entry only
\* elsewhere in its name is not matched.
C15_ExactOrSuffixOnly ==
    (Analyzed /\ marketing_out[1].via = "newsletter_domain")
        => KnownMarketingDomain(email_data.domain)

\* C15, what the domain check keeps: every domain that equals an entry or ends
\* with one is matched, and a domain that contains no entry is not.
C15_ContainsEntry ==
    Analyzed =>
        /\ KnownMarketingDomain(email_data.domain)
              => marketing_out[1].via = "newsletter_domain"
        /\ marketing_out[1].via = "newsletter_domain"
              => IsNewsletterDomain(Lower(email_data.domain))

(***************************************************************************)
(* The evidence store under the scanner's workers: each worker saves its   *)
(* result to either table, in any order with the others.                   *)
(***************************************************************************)
notStore == <<routerVars, legalVars, scoreVars, marketingVars, levelVars,
              detectVars, normVars, scanVars, appVars>>

InitStore ==
    /\ RouterIdle
    /\ AppIdle
    /\ LegalIdle
    /\ ScoreIdle
    /\ MarketingIdle
    /\ LevelIdle
    /\ DetectIdle
    /\ NormIdle
    /\ ScanIdle
    /\ tasks \in [Workers -> Tasks]
    /\ saved = [w \in Workers |-> {}]
    /\ email_evidence = << >>
    /\ email_classifications = NoRows
    /\ last_write = [t \in Tables |-> NoRows]

\* save_email_evidence: one INSERT statement
SaveEmailEvidence(w) ==
    /\ "email_evidence" \notin saved[w]
    /\ LET row == EvidenceRow(w, tasks[w])
       IN  /\ email_evidence' = Insert(email_evidence, row)
           /\ last_write' =
                 [last_write EXCEPT !["email_evidence"][tasks[w].ref] = <<row>>]
    /\ saved' = [saved EXCEPT ![w] = @ \cup {"email_evidence"}]
    /\ UNCHANGED <<tasks, email_classifications, notStore>>

\* save_classification: one INSERT OR REPLACE statement
SaveClassification(w) ==
    /\ "email_classifications" \notin saved[w]
    /\ LET row == ClassificationRow(w, tasks[w])
       IN  /\ email_classifications' = InsertOrReplace(email_classifications, row)
           /\ last_write' =
                 [last_write EXCEPT
                     !["email_classifications"][tasks[w].ref] = <<row>>]
    /\ saved' = [saved EXCEPT ![w] = @ \cup {"email_classifications"}]
    /\ UNCHANGED <<tasks, email_evidence, notStore>>

NextStore ==
    \/ \E w \in Workers : SaveEmailEvidence(w)
    \/ \E w \in Workers : SaveClassification(w)

SpecStore == InitStore /\ [][NextStore]_vars

\* the stored records of a reference, per table
Stored(t, ref) ==
    IF t = "email_evidence"
    THEN SelectSeq(email_evidence, LAMBDA r : r.email_message_id = ref)
    ELSE email_classifications[ref]

\* C16: persisting for a reference that already has a stored record replaces
\* it: after any sequence of persists for one reference exactly one record
\* exists for it and it equals the last one written.
C16_UpsertLastWriteWins ==
    \A t \in Tables : \A ref \in Refs :
        last_write[t][ref] # << >> => Stored(t, ref) = last_write[t][ref]

\* C16, what the store keeps: email_classifications holds exactly the last
\* row written for a group, and email_evidence holds every row written, the
\* last one last.
C16_ReplaceOnlyInClassifications ==
    \A ref \in Refs :
        /\ email_classifications[ref] = last_write["email_classifications"][ref]
        /\ last_write["email_evidence"][ref] # << >> =>
              LET rows == Stored("email_evidence", ref)
              IN  /\ rows # << >>
                  /\ rows[Len(rows)] = last_write["email_evidence"][ref][1]
                  /\ Len(rows) =
                        Cardinality({w \in Workers :
                            /\ tasks[w].ref = ref
                            /\ "email_evidence" \in saved[w]})

\* the complete rows the workers have written so far
Written(t) ==
    {IF t = "email_evidence" THEN EvidenceRow(w, tasks[w])
     ELSE ClassificationRow(w, tasks[w]) : w \in {v \in Workers : t \in saved[v]}}

notNorm == <<routerVars, legalVars, scoreVars, marketingVars, levelVars,
             detectVars, storeVars, scanVars, appVars>>

InitNorm ==
    /\ RouterIdle
    /\ AppIdle
    /\ LegalIdle
    /\ ScoreIdle
    /\ MarketingIdle
    /\ LevelIdle
    /\ DetectIdle
    /\ StoreIdle
    /\ ScanIdle
    /\ text \in Texts
    /\ normalized = << >>

Normalize ==
    /\ normalized = << >>
    /\ normalized' =
          << [ normalize_text |->
                 Twice(normalize_text(text), normalize_text(normalize_text(text))),
               remove_accents |->
                 Twice(remove_accents(text), remove_accents(remove_accents(text))),
               normalize_ocr |->
                 Twice(normalize_ocr(text), normalize_ocr(normalize_ocr(text))) ] >>
    /\ UNCHANGED <<text, notNorm>>

NextNorm == Normalize

SpecNorm == InitNorm /\ [][NextNorm]_vars

\* C19: normalize is idempotent: for every string x, the empty string
\* included, normalize(normalize(x)) = normalize(x); this for normalize_text,
\* for the accent removal of quick_keyword_filter and for _normalize_ocr.
C19_NormalizeIdempotent ==
    normalized # << >> =>
        /\ normalized[1].normalize_text.twice = normalized[1].normalize_text.once
        /\ normalized[1].remove_accents.twice = normalized[1].remove_accents.once
        /\ normalized[1].normalize_ocr.twice = normalized[1].normalize_ocr.once
        /\ text = << >> => normalized[1].normalize_text.once = << >>

C19_Witness ==
    /\ normalized # << >>
    /\ text = <<"Á", " ", " ">>
    /\ normalized[1].normalize_text.once = <<"a", " ", " ">>
    /\ normalized[1].normalize_ocr.once = <<"Á", " ">>

(***************************************************************************)
(* The scan of an mbox, stopped and started again.                         *)
(***************************************************************************)
notScan == <<routerVars, legalVars, scoreVars, marketingVars, levelVars,
             detectVars, storeVars, normVars, appVars>>

\* the scanner is started on a fresh database: no checkpoint row yet
InitScan ==
    /\ RouterIdle
    /\ AppIdle
    /\ LegalIdle
    /\ ScoreIdle
    /\ MarketingIdle
    /\ LevelIdle
    /\ DetectIdle
    /\ StoreIdle
    /\ NormIdle
    /\ idx = 0
    /\ last_processed_index = 0
    /\ processed = [e \in Emails |-> 0]
    /\ scan_status = "running"
    /\ restarts = 0

\* one pass of the loop body for an email that is not skipped: the email is
\* processed, and every CHECKPOINT_INTERVAL emails the index is saved
ProcessEmail ==
    /\ scan_status = "running"
    /\ idx < MboxSize
    /\ processed' = [processed EXCEPT ![idx] = @ + 1]
    /\ last_processed_index' =
          IF idx % CHECKPOINT_INTERVAL = 0 THEN idx ELSE last_processed_index
    /\ idx' = idx + 1
    /\ UNCHANGED <<scan_status, restarts, notScan>>

\* the scanner is stopped (CTRL+C, a crash) between two emails
StopScan ==
    /\ scan_status = "running"
    /\ idx < MboxSize
    /\ scan_status' = "stopped"
    /\ UNCHANGED <<idx, last_processed_index, processed, restarts, notScan>>

\* the scanner is started again: load_checkpoint, and the loop skips every
\* idx < last_processed_id
RestartScan ==
    /\ scan_status = "stopped"
    /\ restarts < MaxRestarts
    /\ scan_status' = "running"
    /\ idx' = last_processed_index
    /\ restarts' = restarts + 1
    /\ UNCHANGED <<last_processed_index, processed, notScan>>

\* the loop has run through the mbox
CompleteScan ==
    /\ scan_status = "running"
    /\ idx = MboxSize
    /\ scan_status' = "completed"
    /\ UNCHANGED <<idx, last_processed_index, processed, restarts, notScan>>

NextScan ==
    \/ ProcessEmail
    \/ StopScan
    \/ RestartScan
    \/ CompleteScan

SpecScan == InitScan /\ [][NextScan]_vars

\* C20: after a scan is stopped at any point and restarted, it continues from
\* where it stopped and no email is processed a second time.
C20_NoEmailProcessedTwice ==
    \A e \in Emails : processed[e] <= 1

\* C20, what the checkpoint keeps: a restarted scan starts at the last saved
\* index, at most CHECKPOINT_INTERVAL emails before the place it stopped, no
\* email is left out, and a completed scan has processed every email.
C20_ResumeFromCheckpoint ==
    /\ last_processed_index % CHECKPOINT_INTERVAL = 0
    /\ last_processed_index <= idx
    /\ \A e \in Emails : e < idx => processed[e] >= 1
    /\ scan_status = "completed" => \A e \in Emails : processed[e] >= 1

(***************************************************************************)
(* Specification of the retry loop: the scan loop hands MaxMails emails,    *)
(* one after the other, to analyze_with_llm_retry.                         *)
(***************************************************************************)
InitRetry ==
    /\ RouterIdle
    /\ DetectorsIdle
    /\ AppIdle

RetryRunning == mail \in Mails /\ retry_escaped = << >>

\* try: return self.analyze_with_llm(subject, sender, body)
AttemptReturns ==
    /\ RetryRunning
    /\ \E r \in LLMResults :
          retry_out' = [retry_out EXCEPT ![mail] = <<r>>]
    /\ llm_attempts' = [llm_attempts EXCEPT ![mail] = @ + 1]
    /\ mail' = mail + 1
    /\ attempt' = 0
    /\ UNCHANGED <<timed_out, sleeps, stats_retries, failed_queue,
                   retry_escaped>>
    /\ UNCHANGED notRetry

\* except requests.Timeout: count it, sleep unless this was the last
\* attempt; after the last attempt the for loop ends and the function has
\* no statement left, so it returns None
AttemptTimesOut ==
    /\ RetryRunning
    /\ llm_attempts' = [llm_attempts EXCEPT ![mail] = @ + 1]
    /\ timed_out' = [timed_out EXCEPT ![mail] = @ + 1]
    /\ stats_retries' = stats_retries + 1
    /\ IF attempt < MAX_RETRIES - 1
          THEN /\ sleeps' = [sleeps EXCEPT
                                ![mail] = Append(@, wait_time(attempt))]
               /\ attempt' = attempt + 1
               /\ UNCHANGED <<mail, retry_out>>
          ELSE /\ retry_out' = [retry_out EXCEPT ![mail] = <<"None">>]
               /\ mail' = mail + 1
               /\ attempt' = 0
               /\ UNCHANGED sleeps
    /\ UNCHANGED <<failed_queue, retry_escaped>>
    /\ UNCHANGED notRetry

\* any other exception of analyze_with_llm is not caught by the function
AttemptRaises ==
    /\ RetryRunning
    /\ \E x \in OtherErrors : retry_escaped' = <<x>>
    /\ llm_attempts' = [llm_attempts EXCEPT ![mail] = @ + 1]
    /\ UNCHANGED <<mail, attempt, timed_out, sleeps, stats_retries,
                   retry_out, failed_queue>>
    /\ UNCHANGED notRetry

NextRetry ==
    \/ AttemptReturns
    \/ AttemptTimesOut
    \/ AttemptRaises

SpecRetry == InitRetry /\ [][NextRetry]_vars

\* every attempt made for email m timed out, and no attempt is left
Exhausted(m) == timed_out[m] = MAX_RETRIES

\* C21, the attempts: analyze_with_llm_retry calls the LLM at most
\* MAX_RETRIES times for one email.
C21_AtMostMaxRetries ==
    \A m \in Mails : llm_attempts[m] <= MAX_RETRIES

\* C21, the waits that are made: the k-th wait of an email is the k-th
\* configured delay, so the waits only grow.
C21_WaitsFollowDelays ==
    \A m \in Mails :
        /\ Len(sleeps[m]) <= Len(RETRY_DELAYS)
        /\ \A k \in 1..Len(sleeps[m]) : sleeps[m][k] = RETRY_DELAYS[k]

\* C21: analyze_with_llm_retry makes at most MAX_RETRIES attempts per email
\* and after each timed-out attempt waits, 1 s after the first, 2 s after the
\* second and 4 s after the third, before trying again.
C21_BackoffDelays ==
    \A m \in Mails :
        /\ llm_attempts[m] <= MAX_RETRIES
        /\ sleeps[m] = SubSeq(RETRY_DELAYS, 1, timed_out[m])

\* C22, what holds: requests.Timeout never leaves analyze_with_llm_retry,
\* and after the last timeout the loop is at the next email.
C22_TimeoutIsCaught ==
    /\ retry_escaped # <<"Timeout">>
    /\ \A m \in Mails :
          (Exhausted(m) /\ retry_escaped = << >>) => mail > m

\* C22: when every attempt for an email times out, the email is saved to
\* the failed queue and a non-subscription result marked
\* max_retries_exceeded is returned to the scan loop.
C22_ExhaustedIsQueuedAndMarked ==
    \A m \in Mails :
        Exhausted(m) =>
            /\ m \in failed_queue
            /\ retry_out[m] = <<"max_retries_exceeded">>

(***************************************************************************)
(* Specification of the auto-scaling: the scanner starts with the worker   *)
(* count of its hardware; the monitor thread samples, the scan loop calls  *)
(* adjust_workers.                                                         *)
(***************************************************************************)
InitWorkers ==
    /\ RouterIdle
    /\ IdleButWorkers
    /\ max_workers \in WorkerCounts
    /\ current_workers = max_workers
    /\ cpu_overload = FALSE
    /\ memory_overload = FALSE
    /\ last_adjust = << >>

\* one round of ResourceMonitor._monitor_loop
MonitorLoop ==
    /\ \E max_cpu \in Readings, memory_percent \in Readings :
          /\ cpu_overload' = (max_cpu > CPU_LIMIT_PERCENT)
          /\ memory_overload' = (memory_percent > MEMORY_LIMIT_PERCENT)
    /\ UNCHANGED <<max_workers, current_workers, last_adjust>>
    /\ UNCHANGED notWorkers

\* adjust_workers: the overloaded branch stores new_workers, the other
\* branch computes and logs new_workers and ends there
AdjustWorkers ==
    /\ current_workers' =
          IF is_overloaded
             THEN Max(1, current_workers - 1)
             ELSE current_workers
    /\ last_adjust' = <<[before |-> current_workers,
                         overloaded |-> is_overloaded,
                         after |-> current_workers']>>
    /\ UNCHANGED <<max_workers, cpu_overload, memory_overload>>
    /\ UNCHANGED notWorkers

NextWorkers ==
    \/ MonitorLoop
    \/ AdjustWorkers

SpecWorkers == InitWorkers /\ [][NextWorkers]_vars

\* C23, the limits: current_workers stays between 1 and max_workers.
C23_WithinLimits ==
    /\ current_workers >= 1
    /\ current_workers <= max_workers

\* C23, the overloaded call: it lowers current_workers by one, and leaves
\* a single worker alone.
C23_OverloadedStepsDown ==
    \A a \in {last_adjust[i] : i \in DOMAIN last_adjust} :
        a.overloaded =>
            a.after = (IF a.before > 1 THEN a.before - 1 ELSE 1)

\* C23: each adjust_workers call moves current_workers by one step: down
\* by one when resources are overloaded, never below 1, and up by one when
\* they are not overloaded and it is below max_workers, never above
\* max_workers.
C23_OneStepEachCall ==
    \A a \in {last_adjust[i] : i \in DOMAIN last_adjust} :
        /\ a.overloaded =>
              a.after = (IF a.before > 1 THEN a.before - 1 ELSE 1)
        /\ (~a.overloaded /\ a.before < max_workers) =>
              a.after = a.before + 1
        /\ (~a.overloaded /\ a.before = max_workers) =>
              a.after = a.before

(***************************************************************************)
(* Specification of the pre-consume script, run on one document.           *)
(***************************************************************************)
InitConsume ==
    /\ RouterIdle
    /\ IdleButConsume
    /\ document_arg \in Documents
    /\ sh_pc = "extract"
    /\ files = {document_arg}
    /\ temp_text = << >>
    /\ classification = << >>
    /\ metadata = << >>
    /\ stdout = << >>

\* STEP 2: the document is only read; the text goes to TEMP_TEXT
ExtractText ==
    /\ sh_pc = "extract"
    /\ \E file_type \in MimeTypes, tool \in BOOLEAN, ok \in BOOLEAN,
          out \in {"empty", "text"} :
          temp_text' = <<extract_text(file_type, tool, ok, out)>>
    /\ files' = files \cup {TEMP_TEXT}
    /\ sh_pc' = "classify"
    /\ UNCHANGED <<document_arg, classification, metadata, stdout>>
    /\ UNCHANGED notConsume

\* STEP 3 and 4: docker cp, docker exec, then the metadata file when type
\* and confidence allow it; every echo of this branch goes to stderr
ClassifyDocument ==
    /\ sh_pc = "classify"
    /\ has_size(temp_text[1])
    /\ \E status \in {0, 1}, c \in Classifications :
          IF status = 0 /\ c # << >>
             THEN /\ classification' = c
                  /\ IF wants_metadata(c[1])
                        THEN /\ files' = files \cup
                                  {METADATA_FILE(DOCUMENT_PATH(document_arg))}
                             /\ metadata' =
                                  <<metadata_json(DOCUMENT_PATH(document_arg),
                                                  c[1])>>
                        ELSE UNCHANGED <<files, metadata>>
             ELSE UNCHANGED <<classification, files, metadata>>
    /\ sh_pc' = "cleanup"
    /\ UNCHANGED <<document_arg, temp_text, stdout>>
    /\ UNCHANGED notConsume

\* else: No text extracted, skipping classification
SkipClassification ==
    /\ sh_pc = "classify"
    /\ ~has_size(temp_text[1])
    /\ sh_pc' = "cleanup"
    /\ UNCHANGED <<document_arg, files, temp_text, classification, metadata,
                   stdout>>
    /\ UNCHANGED notConsume

\* rm -f "$TEMP_TEXT"
CleanupTemp ==
    /\ sh_pc = "cleanup"
    /\ files' = files \ {TEMP_TEXT}
    /\ temp_text' = << >>
    /\ sh_pc' = "return"
    /\ UNCHANGED <<document_arg, classification, metadata, stdout>>
    /\ UNCHANGED notConsume

\* echo "$DOCUMENT_PATH"
ReturnPath ==
    /\ sh_pc = "return"
    /\ stdout' = Append(stdout, DOCUMENT_PATH(document_arg))
    /\ sh_pc' = "done"
    /\ UNCHANGED <<document_arg, files, temp_text, classification, metadata>>
    /\ UNCHANGED notConsume

NextConsume ==
    \/ ExtractText
    \/ ClassifyDocument
    \/ SkipClassification
    \/ CleanupTemp
    \/ ReturnPath

SpecConsume == InitConsume /\ [][NextConsume]_vars

\* C24: on every path through the script the document stays at the path
\* Paperless passed, under its original name, and that path is the one
\* line the script prints on standard output.
C24_DocumentStaysAndIsReturned ==
    /\ document_arg \in files
    /\ IF sh_pc = "done"
          THEN stdout = <<document_arg>>
          ELSE stdout = << >>

\* a finished run that wrote metadata for a document with diacritics
C24_Witness ==
    /\ sh_pc = "done"
    /\ document_arg.stem = "zpráva"
    /\ metadata # << >>
    /\ METADATA_FILE(document_arg) \in files

\* a finished run whose classification failed
C24_WitnessFailed ==
    /\ sh_pc = "done"
    /\ classification = << >>
    /\ metadata = << >>

(***************************************************************************)
(* Specification of the sequential restart: the script is run on any       *)
(* state of the five containers and the two lock files.                    *)
(***************************************************************************)
InitRestart ==
    /\ RouterIdle
    /\ IdleButRestart
    /\ rs_pc = "stop"
    /\ running \in SUBSET Containers
    /\ locks \in SUBSET LockFiles
    /\ stopped = {}
    /\ removed = {}
    /\ started = << >>
    /\ at_start = << >>

\* a running container takes its lock file
TakeLock ==
    /\ \E c \in running :
          /\ LockOf(c) # {}
          /\ ~(LockOf(c) \subseteq locks)
          /\ locks' = locks \cup LockOf(c)
    /\ UNCHANGED <<rs_pc, running, stopped, removed, started, at_start>>
    /\ UNCHANGED notRestart

\* docker stop of the five containers
StopAll ==
    /\ rs_pc = "stop"
    /\ running' = running \ Containers
    /\ stopped' = Containers
    /\ rs_pc' = "rm_migration_lock"
    /\ UNCHANGED <<locks, removed, started, at_start>>
    /\ UNCHANGED notRestart

\* rm -f .../migration_lock
RemoveMigrationLock ==
    /\ rs_pc = "rm_migration_lock"
    /\ locks' = locks \ {"migration_lock"}
    /\ removed' = removed \cup {"migration_lock"}
    /\ rs_pc' = "rm_celerybeat"
    /\ UNCHANGED <<running, stopped, started, at_start>>
    /\ UNCHANGED notRestart

\* rm -f .../celerybeat-schedule.db*
RemoveCelerybeatSchedule ==
    /\ rs_pc = "rm_celerybeat"
    /\ locks' = locks \ {"celerybeat-schedule.db"}
    /\ removed' = removed \cup {"celerybeat-schedule.db"}
    /\ rs_pc' = "start"
    /\ UNCHANGED <<running, stopped, started, at_start>>
    /\ UNCHANGED notRestart

\* the next docker start of phase 2, followed by its sleep
StartNext ==
    /\ rs_pc = "start"
    /\ LET c == StartOrder[Len(started) + 1] IN
          /\ running' = running \cup {c}
          /\ started' = Append(started, c)
          /\ at_start' = Append(at_start, [running |-> running,
                                           locks |-> locks,
                                           stopped |-> stopped,
                                           removed |-> removed])
          /\ rs_pc' = IF Len(started') = Len(StartOrder)
                         THEN "check" ELSE "start"
    /\ UNCHANGED <<locks, stopped, removed>>
    /\ UNCHANGED notRestart

\* phase 3: docker ps and the health check only read
CheckStatus ==
    /\ rs_pc = "check"
    /\ rs_pc' = "done"
    /\ UNCHANGED <<running, locks, stopped, removed, started, at_start>>
    /\ UNCHANGED notRestart

NextRestart ==
    \/ TakeLock
    \/ StopAll
    \/ RemoveMigrationLock
    \/ RemoveCelerybeatSchedule
    \/ StartNext
    \/ CheckStatus

SpecRestart == InitRestart /\ [][NextRestart]_vars

\* the order the containers are to be started in
DbBrokerWebWorkerBeat ==
    <<"paperless-ngx-db-1", "paperless-ngx-broker-1",
      "paperless-ngx-webserver-1", "paperless-worker", "paperless-beat">>

\* C25: in every run all five containers are stopped and both lock files
\* removed before any container is started, and the containers are started
\* strictly in the order database, broker, webserver, worker, beat: beat is
\* started only after worker, in a step of its own.
C25_StopCleanThenStartInOrder ==
    /\ Len(started) <= Len(DbBrokerWebWorkerBeat)
    /\ started = SubSeq(DbBrokerWebWorkerBeat, 1, Len(started))
    /\ \A i \in DOMAIN at_start :
          /\ at_start[i].stopped = Containers
          /\ at_start[i].removed = LockFiles
          /\ at_start[i].running = {started[j] : j \in 1..(i - 1)}
    /\ (at_start # << >>) =>
          /\ at_start[1].running = {}
          /\ at_start[1].locks = {}

\* a finished restart of a system where everything ran and both locks
\* existed
C25_Witness ==
    /\ rs_pc = "done"
    /\ Len(started) = 5
    /\ running = Containers

(***************************************************************************)
(* Specification of the try-on API: MaxRequests requests are handled       *)
(* concurrently by the one Node.js process on one database.               *)
(***************************************************************************)
InitTryOn ==
    /\ RouterIdle
    /\ DetectorsIdle
    /\ AppIdle

\* the form is parsed and the two uploads are stored under unique names; a
\* request without its names or images is answered with status 400
ReceiveRequest(r) ==
    /\ req[r].pc = "new"
    /\ \E pn \in PersonNames \cup {""}, cn \in ClothingNames :
          IF pn = ""
             THEN /\ req' = [req EXCEPT ![r].pc = "done"]
                  /\ responses' = [responses EXCEPT ![r] =
                        <<[success |-> FALSE, status |-> 400,
                           resultUrl |-> NoUrl, tryOnId |-> 0]>>]
             ELSE /\ req' = [req EXCEPT ![r].pc = "find_person",
                                        ![r].personName = pn,
                                        ![r].clothingName = cn]
                  /\ UNCHANGED responses
    /\ UNCHANGED <<person_table, clothing_table, tryon_table>>
    /\ UNCHANGED notTryOn

\* let person = await prisma.person.findFirst(...)
FindPerson(r) ==
    /\ req[r].pc = "find_person"
    /\ LET id == findFirst(person_table, req[r].personName) IN
          req' = [req EXCEPT ![r].person = id,
                             ![r].pc = IF id = 0 THEN "create_person"
                                                 ELSE "find_clothing"]
    /\ UNCHANGED <<person_table, clothing_table, tryon_table, responses>>
    /\ UNCHANGED notTryOn

\* if (!person) person = await prisma.person.create(...)
CreatePerson(r) ==
    /\ req[r].pc = "create_person"
    /\ person_table' = Append(person_table,
                              [name |-> req[r].personName,
                               imageUrl |-> UploadUrl("person", r)])
    /\ req' = [req EXCEPT ![r].person = Len(person_table) + 1,
                          ![r].pc = "find_clothing"]
    /\ UNCHANGED <<clothing_table, tryon_table, responses>>
    /\ UNCHANGED notTryOn

\* let clothing = await prisma.clothing.findFirst(...)
FindClothing(r) ==
    /\ req[r].pc = "find_clothing"
    /\ LET id == findFirst(clothing_table, req[r].clothingName) IN
          req' = [req EXCEPT ![r].clothing = id,
                             ![r].pc = IF id = 0 THEN "create_clothing"
                                                 ELSE "call_catvton"]
    /\ UNCHANGED <<person_table, clothing_table, tryon_table, responses>>
    /\ UNCHANGED notTryOn

\* if (!clothing) clothing = await prisma.clothing.create(...)
CreateClothing(r) ==
    /\ req[r].pc = "create_clothing"
    /\ clothing_table' = Append(clothing_table,
                                [name |-> req[r].clothingName,
                                 imageUrl |-> UploadUrl("clothing", r)])
    /\ req' = [req EXCEPT ![r].clothing = Len(clothing_table) + 1,
                          ![r].pc = "call_catvton"]
    /\ UNCHANGED <<person_table, tryon_table, responses>>
    /\ UNCHANGED notTryOn

\* the try / catch around the CatVTON call
CallCatVton(r) ==
    /\ req[r].pc = "call_catvton"
    /\ \E o \in CatVtonOutcomes :
          req' = [req EXCEPT ![r].outcome = o,
                             ![r].resultUrl = result_url(o, r),
                             ![r].pc = "save_tryon"]
    /\ UNCHANGED <<person_table, clothing_table, tryon_table, responses>>
    /\ UNCHANGED notTryOn

\* prisma.tryOn.create and the success response
SaveTryOn(r) ==
    /\ req[r].pc = "save_tryon"
    /\ tryon_table' = Append(tryon_table,
                             [personId |-> req[r].person,
                              clothingId |-> req[r].clothing,
                              resultUrl |-> req[r].resultUrl])
    /\ responses' = [responses EXCEPT ![r] =
          <<[success |-> TRUE, status |-> 200,
             resultUrl |-> req[r].resultUrl,
             tryOnId |-> Len(tryon_table) + 1]>>]
    \* the handler returns: of its locals only the outcome is kept here
    /\ req' = [req EXCEPT ![r] = [NewRequest EXCEPT !.pc = "done",
                                               !.outcome = req[r].outcome]]
    /\ UNCHANGED <<person_table, clothing_table>>
    /\ UNCHANGED notTryOn

NextTryOn ==
    \E r \in Requests :
        \/ ReceiveRequest(r)
        \/ FindPerson(r)
        \/ CreatePerson(r)
        \/ FindClothing(r)
        \/ CreateClothing(r)
        \/ CallCatVton(r)
        \/ SaveTryOn(r)

SpecTryOn == InitTryOn /\ [][NextTryOn]_vars

\* the CatVTON call of request r threw, was not OK or had no result image
CatVtonFailed(r) == req[r].outcome \in {"throws", "not_ok", "no_image"}

\* C26: when the CatVTON call throws, is not OK or delivers no result
\* image, the request still succeeds: the result URL is the uploaded
\* person image, a TryOn row with that URL is saved and the response
\* reports success.
C26_FallbackToPersonImage ==
    \A r \in Requests :
        (CatVtonFailed(r) /\ req[r].pc = "done") =>
            /\ responses[r] # << >>
            /\ responses[r][1].success
            /\ responses[r][1].resultUrl = UploadUrl("person", r)
            /\ responses[r][1].tryOnId \in DOMAIN tryon_table
            /\ tryon_table[responses[r][1].tryOnId].resultUrl =
                  UploadUrl("person", r)

\* a finished request whose CatVTON call threw
C26_Witness ==
    \E r \in Requests :
        /\ req[r].outcome = "throws"
        /\ req[r].pc = "done"

\* C29: whatever the interleaving of concurrent try-on requests, at most
\* one Person row exists per person name and at most one Clothing row per
\* clothing name.
C29_OneRowPerName ==
    /\ \A i, j \in DOMAIN person_table :
          person_table[i].name = person_table[j].name => i = j
    /\ \A i, j \in DOMAIN clothing_table :
          clothing_table[i].name = clothing_table[j].name => i = j

(***************************************************************************)
(* C27: the scorer's own unit test, checked under SpecScore.               *)
(***************************************************************************)
\* the patterns "Your GitHub subscription will renew on 2025-12-01 for
\* $14.99" matches: both keywords, the price and the date, no cadence word
TestTextPatterns ==
    {"subscription_keyword", "renewal_keyword", "price_with_currency",
     "date_format_valid"}

\* C27: a text that matches the subscription keyword, the renewal keyword,
\* a date and a currency price, but no monthly/yearly word, gets a total of
\* at least 150 and the level HIGH or VERY_HIGH.
C27_KeywordDatePriceIsHigh ==
    (scored /\ TestTextPatterns \subseteq matched
            /\ "monthly_yearly" \notin matched) =>
        /\ total(score) >= 150
        /\ score_level \in {"HIGH", "VERY_HIGH"}

\* C27, what the tables give that text: the better keyword (50), the
\* price (40) and the date (15), no bonus: 105 points, MEDIUM.
C27_KeywordDatePriceScore ==
    (scored /\ matched = TestTextPatterns) =>
        /\ total(score) = 105
        /\ score_level = "MEDIUM"

(***************************************************************************)
(* Specification of the page with its CameraCapture: the user's clicks and *)
(* the browser's answers to getUserMedia, in any order.                    *)
(***************************************************************************)
InitCamera ==
    /\ RouterIdle
    /\ DetectorsIdle
    /\ AppIdle

Mounted == personMode = "camera"

\* startCamera up to its await: the request is now pending
RequestCamera == Append(pending, instance)

\* stopCamera: stops the tracks of the stream held in state, if any
StoppedLive == IF stream # << >> THEN live \ {stream[1]} ELSE live

\* onClick={() => setPersonMode('camera')}: a fresh CameraCapture mounts
SwitchToCamera ==
    /\ personMode = "upload"
    /\ instance < MaxMounts
    /\ personMode' = "camera"
    /\ instance' = instance + 1
    /\ isStreaming' = FALSE
    /\ shots' = << >>
    /\ stream' = << >>
    /\ UNCHANGED <<pending, live, streams_given, shots_taken,
                   personCameraShots, submitted>>
    /\ UNCHANGED notCamera

\* onClick={() => setPersonMode('upload')}: the CameraCapture unmounts; it
\* has no cleanup effect, its state is dropped as it is
SwitchToUpload ==
    /\ personMode = "camera"
    /\ personMode' = "upload"
    /\ isStreaming' = FALSE
    /\ shots' = << >>
    /\ stream' = << >>
    /\ UNCHANGED <<instance, pending, live, streams_given, shots_taken,
                   personCameraShots, submitted>>
    /\ UNCHANGED notCamera

\* the button Spustit kameru, shown while !isStreaming and no shots
ClickStartCamera ==
    /\ Mounted
    /\ ~isStreaming
    /\ shots = << >>
    /\ Len(pending) < MaxPending
    /\ pending' = RequestCamera
    /\ UNCHANGED <<personMode, instance, isStreaming, shots, stream, live,
                   streams_given, shots_taken, personCameraShots, submitted>>
    /\ UNCHANGED notCamera

\* getUserMedia resolves: startCamera goes on after its await; the video
\* element exists only while the instance that asked is still mounted
CameraGranted ==
    /\ pending # << >>
    /\ streams_given < MaxStreams
    /\ LET asked == Head(pending)
           mediaStream == streams_given + 1
       IN  /\ streams_given' = mediaStream
           /\ live' = live \cup {mediaStream}
           /\ pending' = Tail(pending)
           /\ IF Mounted /\ asked = instance
                 THEN /\ stream' = <<mediaStream>>
                      /\ isStreaming' = TRUE
                 ELSE UNCHANGED <<stream, isStreaming>>
    /\ UNCHANGED <<personMode, instance, shots, shots_taken,
                   personCameraShots, submitted>>
    /\ UNCHANGED notCamera

\* getUserMedia rejects: the catch block only alerts
CameraDenied ==
    /\ pending # << >>
    /\ pending' = Tail(pending)
    /\ UNCHANGED <<personMode, instance, isStreaming, shots, stream, live,
                   streams_given, shots_taken, personCameraShots, submitted>>
    /\ UNCHANGED notCamera

\* the button Stop: stopCamera
ClickStop ==
    /\ Mounted
    /\ isStreaming
    /\ live' = StoppedLive
    /\ IF stream # << >>
          THEN stream' = << >> /\ isStreaming' = FALSE
          ELSE UNCHANGED <<stream, isStreaming>>
    /\ UNCHANGED <<personMode, instance, shots, pending, streams_given,
                   shots_taken, personCameraShots, submitted>>
    /\ UNCHANGED notCamera

\* the button Dalsi zaber / Vyfotit: takeShot
TakeShot ==
    /\ Mounted
    /\ isStreaming
    /\ shots_taken < MaxShots
    /\ shots_taken' = shots_taken + 1
    /\ IF multiShot
          THEN /\ shots' = Append(shots, shots_taken')
               /\ UNCHANGED <<live, stream, isStreaming, personCameraShots>>
          ELSE /\ shots' = <<shots_taken'>>
               /\ live' = StoppedLive
               /\ IF stream # << >>
                     THEN stream' = << >> /\ isStreaming' = FALSE
                     ELSE UNCHANGED <<stream, isStreaming>>
               /\ personCameraShots' = <<shots_taken'>>
    /\ UNCHANGED <<personMode, instance, pending, streams_given, submitted>>
    /\ UNCHANGED notCamera

\* the button Hotovo: finishMultiShot
FinishMultiShot ==
    /\ Mounted
    /\ isStreaming
    /\ multiShot
    /\ Len(shots) > 0
    /\ live' = StoppedLive
    /\ IF stream # << >>
          THEN stream' = << >> /\ isStreaming' = FALSE
          ELSE UNCHANGED <<stream, isStreaming>>
    /\ personCameraShots' = shots
    /\ UNCHANGED <<personMode, instance, shots, pending, streams_given,
                   shots_taken, submitted>>
    /\ UNCHANGED notCamera

\* the button Opakovat, shown while !isStreaming and shots exist: retakeShot
RetakeShot ==
    /\ Mounted
    /\ ~isStreaming
    /\ Len(shots) > 0
    /\ Len(pending) < MaxPending
    /\ shots' = << >>
    /\ pending' = RequestCamera
    /\ UNCHANGED <<personMode, instance, isStreaming, stream, live,
                   streams_given, shots_taken, personCameraShots, submitted>>
    /\ UNCHANGED notCamera

\* the x button on a shown shot: removeShot(index)
RemoveShot ==
    /\ Mounted
    /\ \E index \in DOMAIN shots : shots' = RemoveAt(shots, index)
    /\ UNCHANGED <<personMode, instance, isStreaming, stream, pending, live,
                   streams_given, shots_taken, personCameraShots, submitted>>
    /\ UNCHANGED notCamera

\* the button Vyzkouset obleceni in camera mode: handleTryOn sends
\* personCameraShots
HandleTryOn ==
    /\ Mounted
    /\ hasPersonData
    /\ submitted' = <<[sent |-> personCameraShots, shown |-> shots]>>
    /\ UNCHANGED <<personMode, instance, isStreaming, shots, stream, pending,
                   live, streams_given, shots_taken, personCameraShots>>
    /\ UNCHANGED notCamera

NextCamera ==
    \/ SwitchToCamera
    \/ SwitchToUpload
    \/ ClickStartCamera
    \/ CameraGranted
    \/ CameraDenied
    \/ ClickStop
    \/ TakeShot
    \/ FinishMultiShot
    \/ RetakeShot
    \/ RemoveShot
    \/ HandleTryOn

SpecCamera == InitCamera /\ [][NextCamera]_vars

\* C28: no camera stream is leaked: every MediaStream that is still live
\* is the one held in component state, so at most one stream is live.
C28_NoStreamLeaked ==
    /\ \A s \in live : stream = <<s>>
    /\ Cardinality(live) <= 1

\* C28, what holds: the component streams exactly while it holds a
\* stream, that stream is live, and stopCamera stops it.
C28_HeldStreamIsLive ==
    /\ isStreaming <=> (stream # << >>)
    /\ stream # << >> => stream[1] \in live

\* C30: the shot list the page submits for a try-on equals the shot list
\* the CameraCapture component shows at that moment.
C30_SubmitsShownShots ==
    \A i \in DOMAIN submitted : submitted[i].sent = submitted[i].shown

====
